---- MODULE Spec2Model ----
(***************************************************************************)
(* VibeCAD backend: the DFM validator (dfm_validator.py) and the cost      *)
(* estimator (cost_estimator.py) as state machines over bounded inputs.    *)
(*                                                                         *)
(* Lengths are in tenths of a millimetre (1.5mm = 15).  The confidence     *)
(* score and the costs are computed in IEEE-754 binary64, as Python        *)
(* computes them; rounded costs are integers in units of the last decimal  *)
(* kept (unit_cost 21.52 = 2152).                                          *)
(***************************************************************************)
EXTENDS Integers, Sequences, FiniteSets, TLC

\* ------------------------------------------------------------------------
\* Bounds of the model
\* ------------------------------------------------------------------------
MaxHoles == 3

\* ------------------------------------------------------------------------
\* Natural numbers of any size: sequences of limbs of LimbBits bits, least
\* significant limb first, no leading zero limb (0 is the empty sequence)
\* ------------------------------------------------------------------------
LimbBits == 14

RECURSIVE Pow2(_)
Pow2(k) == IF k <= 0 THEN 1 ELSE 2 * Pow2(k - 1)

LimbBase == Pow2(LimbBits)

Max(a, b) == IF a >= b THEN a ELSE b

Limb(a, i) == IF i >= 1 /\ i <= Len(a) THEN a[i] ELSE 0

RECURSIVE LastNonZero(_, _)
\* the index of the most significant non-zero limb of a at or below i, or 0
LastNonZero(a, i) == IF i = 0 \/ a[i] # 0 THEN i ELSE LastNonZero(a, i - 1)

\* a without its leading zero limbs
NTrim(a) == SubSeq(a, 1, LastNonZero(a, Len(a)))

RECURSIVE Carry(_, _, _)
\* the limbs of sum(raw[i] * LimbBase^(i-1)), raw[i] any integers, the sum >= 0
Carry(raw, i, c) ==
    IF i > Len(raw)
    THEN IF c = 0 THEN <<>> ELSE <<c % LimbBase>> \o Carry(raw, i, c \div LimbBase)
    ELSE <<(raw[i] + c) % LimbBase>> \o Carry(raw, i + 1, (raw[i] + c) \div LimbBase)

NFromInt(n) == NTrim(Carry(<<n>>, 1, 0))

RECURSIVE NToIntFrom(_, _)
NToIntFrom(a, i) == IF i > Len(a) THEN 0 ELSE a[i] + LimbBase * NToIntFrom(a, i + 1)

\* the value of a, for a < 2^31
NToInt(a) == NToIntFrom(a, 1)

NAdd(a, b) == NTrim(Carry([i \in 1..Max(Len(a), Len(b)) |-> Limb(a, i) + Limb(b, i)], 1, 0))

\* a - b, for a >= b
NSub(a, b) == NTrim(Carry([i \in 1..Max(Len(a), Len(b)) |-> Limb(a, i) - Limb(b, i)], 1, 0))

RECURSIVE NLessFrom(_, _, _)
NLessFrom(a, b, i) ==
    IF i = 0 THEN FALSE
    ELSE IF a[i] # b[i] THEN a[i] < b[i]
    ELSE NLessFrom(a, b, i - 1)

\* a < b
NLess(a, b) == IF Len(a) # Len(b) THEN Len(a) < Len(b) ELSE NLessFrom(a, b, Len(a))

RECURSIVE ConvSum(_, _, _, _)
\* sum of a[i] * b[k + 1 - i] for i from i up
ConvSum(a, b, k, i) ==
    IF i > Len(a) THEN 0 ELSE Limb(a, i) * Limb(b, k + 1 - i) + ConvSum(a, b, k, i + 1)

\* a * b, for factors of at most 4 limbs
NMul(a, b) ==
    IF Len(a) = 0 \/ Len(b) = 0 THEN <<>>
    ELSE NTrim(Carry([k \in 1..(Len(a) + Len(b) - 1) |-> ConvSum(a, b, k, 1)], 1, 0))

\* a * 2^s
NShl(a, s) ==
    LET limbs == s \div LimbBits
        f == Pow2(s % LimbBits)
    IN  NTrim(Carry([i \in 1..(Len(a) + limbs) |-> IF i <= limbs THEN 0 ELSE a[i - limbs] * f], 1, 0))

\* floor(a / 2^s)
NShr(a, s) ==
    LET limbs == s \div LimbBits
        r == s % LimbBits
        f == Pow2(r)
        g == Pow2(LimbBits - r)
    IN  NTrim([i \in 1..Max(Len(a) - limbs, 0) |->
                 Limb(a, i + limbs) \div f + (Limb(a, i + limbs + 1) % f) * g])

\* a mod 2^s
NLow(a, s) == NSub(a, NShl(NShr(a, s), s))

RECURSIVE BitLen(_)
BitLen(n) == IF n = 0 THEN 0 ELSE 1 + BitLen(n \div 2)

\* the number of bits of a
NBitLen(a) == IF Len(a) = 0 THEN 0 ELSE LimbBits * (Len(a) - 1) + BitLen(a[Len(a)])

RECURSIVE NDivFrom(_, _, _, _)
\* short division by n < 2^17, from limb i down: <<quotient limbs, remainder>>
NDivFrom(a, n, i, r) ==
    IF i = 0 THEN <<(<<>>), r>>
    ELSE LET t == r * LimbBase + a[i]
             rest == NDivFrom(a, n, i - 1, t % n)
         IN  <<rest[1] \o <<t \div n>>, rest[2]>>

\* <<floor(a / n), a mod n>> for an integer 0 < n < 2^17
NDivMod(a, n) == LET qr == NDivFrom(a, n, Len(a), 0) IN <<NTrim(qr[1]), qr[2]>>

RECURSIVE FirstNonZero(_, _)
\* the index of the least significant non-zero limb of a # 0, from i up
FirstNonZero(a, i) == IF a[i] # 0 THEN i ELSE FirstNonZero(a, i + 1)

RECURSIVE LowZeros(_)
\* the number of trailing zero bits of the integer n > 0
LowZeros(n) == IF n % 2 = 1 THEN 0 ELSE 1 + LowZeros(n \div 2)

\* the number of trailing zero bits of a # 0
TrailingZeros(a) ==
    LET i == FirstNonZero(a, 1) IN LimbBits * (i - 1) + LowZeros(a[i])

\* ------------------------------------------------------------------------
\* binary64 (the Python float): [neg, m, e] is (-1)^neg * m * 2^e with m a
\* natural number below 2^MantBits, odd or zero.  Exponent range and
\* subnormals are out of reach of the values here.
\* ------------------------------------------------------------------------
MantBits == 53

\* the element of a singleton: in The({F(v) : v \in {x}}) the operand x is
\* evaluated once, before F is applied
The(S) == CHOOSE v \in S : TRUE

\* m * 2^e with m odd or zero
FNorm(neg, m, e) ==
    The({ IF Len(n) = 0 THEN [neg |-> FALSE, m |-> <<>>, e |-> 0]
          ELSE LET z == TrailingZeros(n)
               IN  [neg |-> neg, m |-> NShr(n, z), e |-> e + z]
          : n \in {m} })

\* the binary64 nearest to m * 2^e (plus a non-zero part below the last bit
\* of m when sticky), ties to even: the result of every float operation
FRound(neg, m, e, sticky) ==
    The({ LET cut == NBitLen(n) - MantBits
          IN  IF cut <= 0 THEN FNorm(neg, n, e)
              ELSE LET q == NShr(n, cut)
                       rem == NLow(n, cut)
                       half == NShl(<<1>>, cut - 1)
                       up == \/ NLess(half, rem)
                             \/ rem = half /\ (sticky \/ Limb(q, 1) % 2 = 1)
                   IN  FNorm(neg, IF up THEN NAdd(q, <<1>>) ELSE q, e + cut)
          : n \in {m} })

\* float(n) for an integer n >= 0
FInt(n) == FNorm(FALSE, NFromInt(n), 0)

FZero == FInt(0)

FIsZero(x) == Len(x.m) = 0

\* m of x on the exponent e <= x.e
Aligned(x, e) == NShl(x.m, x.e - e)

Min(a, b) == IF a <= b THEN a ELSE b

\* |x| < |y|
FMagLess(x, y) ==
    LET e == Min(x.e, y.e) IN NLess(Aligned(x, e), Aligned(y, e))

\* x < y
FLess(x, y) ==
    IF x.neg /\ ~y.neg THEN ~(FIsZero(x) /\ FIsZero(y))
    ELSE IF ~x.neg /\ y.neg THEN FALSE
    ELSE IF x.neg THEN FMagLess(y, x)
    ELSE FMagLess(x, y)

\* x + y for x, y >= 0
FAdd(x, y) ==
    The({ LET e == Min(a.e, b.e)
          IN  FRound(FALSE, NAdd(Aligned(a, e), Aligned(b, e)), e, FALSE)
          : a \in {x}, b \in {y} })

\* x - y for y >= 0
FSub(x, y) ==
    The({ LET e == Min(u.e, v.e)
              a == Aligned(u, e)
              b == Aligned(v, e)
          IN  IF u.neg THEN FRound(TRUE, NAdd(a, b), e, FALSE)
              ELSE IF NLess(a, b) THEN FRound(TRUE, NSub(b, a), e, FALSE)
              ELSE FRound(FALSE, NSub(a, b), e, FALSE)
          : u \in {x}, v \in {y} })

\* x * y for x, y >= 0
FMul(x, y) ==
    The({ FRound(FALSE, NMul(a.m, b.m), a.e + b.e, FALSE) : a \in {x}, b \in {y} })

\* the guard bits of a quotient
DivBits == 20

\* x / y for x >= 0 and y a positive integer below 2^17, as every divisor of
\* the program is
FDiv(x, y) ==
    The({ LET shift == MantBits + DivBits - NBitLen(a.m)
          IN  The({ FRound(FALSE, qr[1], a.e - shift, qr[2] # 0)
                    : qr \in {NDivMod(NShl(a.m, shift), n)} })
          : a \in {x}, n \in {NToInt(NShl(y.m, y.e))} })

\* the float of the decimal literal n / 10^k, n and 10^k integers
Lit(n, d) == FDiv(FInt(n), FInt(d))

RECURSIVE Pow10(_)
Pow10(k) == IF k <= 0 THEN 1 ELSE 10 * Pow10(k - 1)

\* floor and remainder of m * 2^e: <<floor, fraction numerator, fraction bits>>
FloorParts(m, e) ==
    IF e >= 0 THEN <<NShl(m, e), <<>>, 0>>
    ELSE <<NShr(m, 0 - e), NLow(m, 0 - e), 0 - e>>

\* round-half-even of m * 2^e to an integer below 2^31
RoundHalfEven(m, e) ==
    The({ LET n == NToInt(p[1])
              half == IF p[3] = 0 THEN <<>> ELSE NShl(<<1>>, p[3] - 1)
          IN  IF p[3] = 0 THEN n
              ELSE IF NLess(half, p[2]) \/ (p[2] = half /\ n % 2 = 1) THEN n + 1
              ELSE n
          : p \in {FloorParts(m, e)} })

\* round(x, k) for x >= 0, in units of 10^-k: the decimal nearest to the
\* exact value of x, ties to even
RoundDec(x, k) ==
    The({ RoundHalfEven(NMul(a.m, NFromInt(Pow10(k))), a.e) : a \in {x} })

\* int(x) for x >= 0: truncation
FTrunc(x) == The({ NToInt(FloorParts(a.m, a.e)[1]) : a \in {x} })

\* ------------------------------------------------------------------------
\* Python dicts: functions over the keys present
\* ------------------------------------------------------------------------
EmptyDict == <<>>

\* d.get(k, default)
Get(d, k, default) == IF k \in DOMAIN d THEN d[k] ELSE default

\* the dict fragments {} and {k: v} for v in S
Opt(k, S) == {EmptyDict} \cup {k :> v : v \in S}

\* ------------------------------------------------------------------------
\* DFMValidator._load_rules: the thresholds validate reads
\* ------------------------------------------------------------------------
Rules ==
    [ aluminum_6061_t6 |->
        [ cnc_milling |->
            [ min_wall_thickness |-> 15,
              recommended_wall_thickness |-> <<20, 30>>,
              max_wall_thickness |-> 80,
              min_hole_diameter |-> 30,
              min_hole_spacing |-> 50,
              min_edge_distance |-> 3 ] ],
      steel_mild |->
        [ cnc_milling |->
            [ min_wall_thickness |-> 10,
              recommended_wall_thickness |-> <<15, 25>>,
              max_wall_thickness |-> 100,
              min_hole_diameter |-> 25,
              min_hole_spacing |-> 50,
              min_edge_distance |-> 3 ] ],
      plastic_abs |->
        [ 3d_printing |->
            [ min_wall_thickness |-> 8,
              recommended_wall_thickness |-> <<12, 20>> ] ],
      stainless_304 |->
        [ cnc_milling |->
            [ min_wall_thickness |-> 10,
              recommended_wall_thickness |-> <<15, 30>>,
              min_hole_diameter |-> 30 ] ] ]

\* the lookup falling back to the default material's rules
M_ProcessRules(material, process) ==
    LET by_process == Get(Rules, material, Rules["aluminum_6061_t6"])
    IN  Get(by_process, process, Rules["aluminum_6061_t6"]["cnc_milling"])

\* self.rules.get(material, {}).get(process, {})
ProcessRules(material, process) == Get(Get(Rules, material, EmptyDict), process, EmptyDict)

\* ------------------------------------------------------------------------
\* DFMValidator.validate
\* ------------------------------------------------------------------------
WallIssue    == [type |-> "wall_thickness", severity |-> "critical"]
WallWarning  == [type |-> "wall_thickness", severity |-> "warning"]
WallSuggestion(w) == [type |-> "wall_thickness", current_value |-> w]
HoleIssue    == [type |-> "hole_diameter", severity |-> "critical"]
SpacingWarning(p1, p2) == [type |-> "hole_spacing", severity |-> "warning", pos1 |-> p1, pos2 |-> p2]
EdgeWarning(p) == [type |-> "edge_distance", severity |-> "warning", pos |-> p]
NoRulesWarning(material, process) == [type |-> "no_rules_found", material |-> material, process |-> process]

\* the wall-thickness branch with the default minimum in place of the rule's
M_WallCheck(wall_thickness, process_rules) ==
    LET min_wall == 10
        max_wall == Get(process_rules, "max_wall_thickness", 100)
        recommended_wall == Get(process_rules, "recommended_wall_thickness", <<20, 30>>)
    IN  IF wall_thickness < min_wall THEN <<(<<WallIssue>>), <<>>, <<>>>>
        ELSE IF wall_thickness > max_wall THEN <<(<<>>), <<WallWarning>>, <<>>>>
        ELSE IF wall_thickness < recommended_wall[1] \/ wall_thickness > recommended_wall[2]
             THEN <<(<<>>), <<>>, <<WallSuggestion(wall_thickness)>>>>
        ELSE <<(<<>>), <<>>, <<>>>>

\* the three wall-thickness tests made one after the other, none excluding the next
M_WallCheckEach(wall_thickness, process_rules) ==
    LET min_wall == Get(process_rules, "min_wall_thickness", 10)
        max_wall == Get(process_rules, "max_wall_thickness", 100)
        recommended_wall == Get(process_rules, "recommended_wall_thickness", <<20, 30>>)
    IN  << IF wall_thickness < min_wall THEN <<WallIssue>> ELSE <<>>,
           IF wall_thickness > max_wall THEN <<WallWarning>> ELSE <<>>,
           IF wall_thickness < recommended_wall[1] \/ wall_thickness > recommended_wall[2]
           THEN <<WallSuggestion(wall_thickness)>> ELSE <<>> >>

\* the wall-thickness branch: <<issues, warnings, suggestions>>
WallCheck(wall_thickness, process_rules) ==
    LET min_wall == Get(process_rules, "min_wall_thickness", 10)
        max_wall == Get(process_rules, "max_wall_thickness", 100)
        recommended_wall == Get(process_rules, "recommended_wall_thickness", <<20, 30>>)
    IN  IF wall_thickness < min_wall THEN <<(<<WallIssue>>), <<>>, <<>>>>
        ELSE IF wall_thickness > max_wall THEN <<(<<>>), <<WallWarning>>, <<>>>>
        ELSE IF wall_thickness < recommended_wall[1] \/ wall_thickness > recommended_wall[2]
             THEN <<(<<>>), <<>>, <<WallSuggestion(wall_thickness)>>>>
        ELSE <<(<<>>), <<>>, <<>>>>

\* math.sqrt(dx**2 + dy**2) < min_spacing; sqrt is monotone and exact on
\* squares, so the comparison is the comparison of the squares
TooClose(pos1, pos2, min_spacing) ==
    (pos1[1] - pos2[1]) * (pos1[1] - pos2[1]) + (pos1[2] - pos2[2]) * (pos1[2] - pos2[2])
        < min_spacing * min_spacing

\* the inner loop leaving at the first pair it reports
M_InnerLoop(positions, i, j, min_spacing) ==
    LET close == {k \in j..Len(positions) : TooClose(positions[i], positions[k], min_spacing)}
    IN  IF close = {} THEN <<>>
        ELSE <<SpacingWarning(positions[i],
                              positions[CHOOSE k \in close : \A l \in close : k <= l])>>

RECURSIVE InnerLoop(_, _, _, _)
\* for pos2 in positions[i+1:], from index j on
InnerLoop(positions, i, j, min_spacing) ==
    IF j > Len(positions) THEN <<>>
    ELSE (IF TooClose(positions[i], positions[j], min_spacing)
          THEN <<SpacingWarning(positions[i], positions[j])>> ELSE <<>>)
         \o InnerLoop(positions, i, j + 1, min_spacing)

RECURSIVE OuterLoop(_, _, _)
\* for i, pos1 in enumerate(positions), from index i on
OuterLoop(positions, i, min_spacing) ==
    IF i > Len(positions) THEN <<>>
    ELSE InnerLoop(positions, i, i + 1, min_spacing) \o OuterLoop(positions, i + 1, min_spacing)

SpacingCheck(positions, min_spacing) == OuterLoop(positions, 1, min_spacing)

RECURSIVE M_EdgeLoop(_, _, _, _, _)
\* the edge loop testing y only when x is clear of the edges
M_EdgeLoop(positions, i, min_edge, base_length, base_width) ==
    IF i > Len(positions) THEN <<>>
    ELSE LET x == positions[i][1]
             y == positions[i][2]
         IN  (IF x < min_edge \/ x > base_length - min_edge
              THEN <<EdgeWarning(positions[i])>>
              ELSE IF y < min_edge \/ y > base_width - min_edge
                   THEN <<EdgeWarning(positions[i])>> ELSE <<>>)
             \o M_EdgeLoop(positions, i + 1, min_edge, base_length, base_width)

RECURSIVE EdgeLoop(_, _, _, _, _)
\* for pos in positions, from index i on
EdgeLoop(positions, i, min_edge, base_length, base_width) ==
    IF i > Len(positions) THEN <<>>
    ELSE LET x == positions[i][1]
             y == positions[i][2]
         IN  (IF x < min_edge \/ x > base_length - min_edge
              THEN <<EdgeWarning(positions[i])>> ELSE <<>>)
             \o (IF y < min_edge \/ y > base_width - min_edge
                 THEN <<EdgeWarning(positions[i])>> ELSE <<>>)
             \o EdgeLoop(positions, i + 1, min_edge, base_length, base_width)

EdgeCheck(positions, min_edge, base_length, base_width) ==
    EdgeLoop(positions, 1, min_edge, base_length, base_width)

\* the mounting-hole block reading an absent hole_diameter as 0
M_MountingCheck(p, geometry, process_rules) ==
    IF "mounting_pattern" \notin DOMAIN p THEN <<(<<>>), <<>>>>
    ELSE LET hole_params == p["mounting_pattern"]
             hole_diameter == Get(hole_params, "hole_diameter", 0)
             positions == Get(hole_params, "positions", <<>>)
             min_hole == Get(process_rules, "min_hole_diameter", 30)
             min_spacing == Get(process_rules, "min_hole_spacing", 50)
             min_edge == Get(process_rules, "min_edge_distance", 3) * hole_diameter
             base_length == Get(geometry, "base_length", 1000)
             base_width == Get(geometry, "base_width", 800)
         IN  << IF hole_diameter < min_hole THEN <<HoleIssue>> ELSE <<>>,
                SpacingCheck(positions, min_spacing)
                    \o EdgeCheck(positions, min_edge, base_length, base_width) >>

\* the mounting-hole block: <<issues, warnings>>
MountingCheck(p, geometry, process_rules) ==
    IF "mounting_pattern" \notin DOMAIN p THEN <<(<<>>), <<>>>>
    ELSE LET hole_params == p["mounting_pattern"]
             hole_diameter == Get(hole_params, "hole_diameter", 45)
             positions == Get(hole_params, "positions", <<>>)
             min_hole == Get(process_rules, "min_hole_diameter", 30)
             min_spacing == Get(process_rules, "min_hole_spacing", 50)
             min_edge == Get(process_rules, "min_edge_distance", 3) * hole_diameter
             base_length == Get(geometry, "base_length", 1000)
             base_width == Get(geometry, "base_width", 800)
         IN  << IF hole_diameter < min_hole THEN <<HoleIssue>> ELSE <<>>,
                SpacingCheck(positions, min_spacing)
                    \o EdgeCheck(positions, min_edge, base_length, base_width) >>

\* the literals of the confidence score
Lit01 == Lit(1, 10)
Lit02 == Lit(2, 10)
Lit05 == Lit(5, 10)
Lit10 == FInt(1)

\* max(0.0, min(1.0, confidence))
Clamp(c) ==
    LET m == IF FLess(c, Lit10) THEN c ELSE Lit10
    IN  IF FLess(FZero, m) THEN m ELSE FZero

\* the confidence score with an issue weighted like a warning
M_Confidence(n_issues, n_warnings) ==
    LET c0 == Lit10
        c1 == IF n_issues > 0 THEN FSub(c0, FMul(FInt(n_issues), Lit01)) ELSE c0
        c2 == IF n_warnings > 0 THEN FSub(c1, FMul(FInt(n_warnings), Lit01)) ELSE c1
    IN  Clamp(c2)

\* the confidence score of n_issues issues and n_warnings warnings
Confidence(n_issues, n_warnings) ==
    LET c0 == Lit10
        c1 == IF n_issues > 0 THEN FSub(c0, FMul(FInt(n_issues), Lit02)) ELSE c0
        c2 == IF n_warnings > 0 THEN FSub(c1, FMul(FInt(n_warnings), Lit01)) ELSE c1
    IN  Clamp(c2)

\* int(confidence * 100)
DfmScore(confidence) == FTrunc(FMul(confidence, FInt(100)))

\* valid while at most one issue
M_IsValid(issues) == Len(issues) <= 1

\* len(issues) == 0
IsValid(issues) == Len(issues) = 0

validate(p) ==
    LET material == Get(p, "material", "aluminum_6061_t6")
        process == Get(p, "manufacturing_process", "cnc_milling")
        process_rules == ProcessRules(material, process)
    IN  IF DOMAIN process_rules = {}
        THEN [ valid |-> TRUE,
               issues |-> <<>>,
               warnings |-> <<NoRulesWarning(material, process)>>,
               suggestions |-> <<>>,
               confidence |-> Lit05 ]
        ELSE LET geometry == Get(p, "primary_geometry", EmptyDict)
                 wall_thickness == Get(geometry, "wall_thickness", 20)
                 wall == WallCheck(wall_thickness, process_rules)
                 mount == MountingCheck(p, geometry, process_rules)
                 issues == wall[1] \o mount[1]
                 warnings == wall[2] \o mount[2]
                 suggestions == wall[3]
                 confidence == Confidence(Len(issues), Len(warnings))
             IN  [ valid |-> IsValid(issues),
                   issues |-> issues,
                   warnings |-> warnings,
                   suggestions |-> suggestions,
                   confidence |-> confidence,
                   dfm_score |-> DfmScore(confidence) ]

\* ------------------------------------------------------------------------
\* CostEstimator: tables
\* ------------------------------------------------------------------------
VARIABLES
    material_prices,  \* self.material_prices
    process_rates     \* self.process_rates

tables == <<material_prices, process_rates>>

_load_material_prices ==
    [ aluminum_6061_t6 |-> Lit(480, 100),
      steel_mild |-> Lit(250, 100),
      stainless_304 |-> Lit(620, 100),
      plastic_abs |-> Lit(300, 100),
      plastic_pla |-> Lit(250, 100),
      titanium |-> Lit(3500, 100) ]

_load_process_rates ==
    [ cnc_milling |->
        [ labor_rate |-> FInt(16), overhead_rate |-> Lit(25, 100), tooling_base |-> FInt(50),
          time_per_cm3 |-> Lit(5, 10), setup_time |-> FInt(15) ],
      3d_printing |->
        [ machine_rate |-> FInt(8), overhead_rate |-> Lit(15, 100), time_per_cm3 |-> FInt(2),
          support_factor |-> Lit(14, 10) ],
      injection_molding |->
        [ mold_cost |-> FInt(5000), cycle_time |-> FInt(30), labor_rate |-> FInt(12),
          overhead_rate |-> Lit(20, 100) ],
      sheet_metal |->
        [ labor_rate |-> FInt(14), overhead_rate |-> Lit(22, 100), cutting_time |-> Lit(3, 10),
          bending_time |-> FInt(2) ] ]

\* CostEstimator.__init__
TablesLoaded ==
    /\ material_prices = _load_material_prices
    /\ process_rates = _load_process_rates

densities ==
    [ aluminum_6061_t6 |-> Lit(270, 100),
      steel_mild |-> Lit(785, 100),
      stainless_304 |-> Lit(800, 100),
      plastic_abs |-> Lit(105, 100),
      plastic_pla |-> Lit(125, 100),
      titanium |-> Lit(450, 100) ]

\* a raised exception
Raise(e) == [raised |-> e]
IsRaise(v) == "raised" \in DOMAIN v

\* ------------------------------------------------------------------------
\* CostEstimator._estimate_cnc_cost
\* ------------------------------------------------------------------------
\* the tiers with strict thresholds
M_VolumeDiscount(quantity) ==
    IF quantity > 1000 THEN Lit(70, 100)
    ELSE IF quantity > 500 THEN Lit(80, 100)
    ELSE IF quantity > 100 THEN Lit(90, 100)
    ELSE FInt(1)

\* unit_cost *= 0.70 / 0.80 / 0.90, or unit_cost as it is
VolumeDiscount(quantity) ==
    IF quantity >= 1000 THEN Lit(70, 100)
    ELSE IF quantity >= 500 THEN Lit(80, 100)
    ELSE IF quantity >= 100 THEN Lit(90, 100)
    ELSE FInt(1)

\* the total without the quantity
M_TotalCost(unit_cost, quantity) == RoundDec(unit_cost, 2)

\* total_cost of a record: round(unit_cost * quantity, 2), unit_cost unrounded
TotalCost(unit_cost, quantity) == RoundDec(FMul(unit_cost, FInt(quantity)), 2)

\* material, labor, tooling and overhead cost and the undiscounted unit cost.
\* Each assignment of the code is a binding v \in {value}: its value is
\* computed once, as the statement is executed once.
CncParts(mass_kg, volume_cm3, material_price, rates, quantity) ==
    The({ The({ The({ [ material |-> material_cost, labor |-> labor_cost,
                        tooling |-> tooling_cost, overhead |-> overhead_cost,
                        unit_cost |-> FAdd(direct_cost, overhead_cost) ]
                      : overhead_cost \in
                          {FMul(direct_cost, Get(rates, "overhead_rate", Lit(25, 100)))} })
                : direct_cost \in {FAdd(FAdd(material_cost, labor_cost), tooling_cost)} })
          : material_cost \in {FMul(mass_kg, material_price)},
            labor_cost \in
              {FMul(FDiv(FAdd(FMul(Get(rates, "time_per_cm3", Lit(5, 10)), volume_cm3),
                              Get(rates, "setup_time", FInt(15))),
                         FInt(60)),
                    Get(rates, "labor_rate", FInt(16)))},
            tooling_cost \in {FDiv(Get(rates, "tooling_base", FInt(50)), FInt(quantity))} })

_estimate_cnc_cost(mass_kg, volume_cm3, material_price, rates, quantity) ==
    IF quantity = 0 THEN Raise("ZeroDivisionError")
    ELSE The({ The({ [ process |-> "cnc_milling",
                       unit_cost |-> RoundDec(unit_cost, 2),
                       total_cost |-> TotalCost(unit_cost, quantity),
                       breakdown |->
                         [ material |-> RoundDec(parts.material, 2),
                           labor |-> RoundDec(parts.labor, 2),
                           tooling_amortized |-> RoundDec(parts.tooling, 2),
                           overhead |-> RoundDec(parts.overhead, 2) ],
                       lead_time_days |-> "5-7",
                       best_for |-> "Low to medium volume (1-1000 units)",
                       quantity |-> quantity,
                       mass_kg |-> RoundDec(mass_kg, 3) ]
                     : unit_cost \in {FMul(parts.unit_cost, VolumeDiscount(quantity))} })
               : parts \in {CncParts(mass_kg, volume_cm3, material_price, rates, quantity)} })

\* ------------------------------------------------------------------------
\* CostEstimator._estimate_3d_printing_cost
\* ------------------------------------------------------------------------
\* material and machine cost, print time, overhead and unit cost
PrintParts(mass_kg, volume_cm3, material_price, rates) ==
    The({ The({ The({ [ material |-> material_cost, machine |-> machine_cost,
                        print_time_hr |-> print_time_hr, overhead |-> overhead_cost,
                        unit_cost |-> FAdd(direct_cost, overhead_cost) ]
                      : overhead_cost \in
                          {FMul(direct_cost, Get(rates, "overhead_rate", Lit(15, 100)))} })
                : machine_cost \in {FMul(print_time_hr, Get(rates, "machine_rate", FInt(8)))},
                  direct_cost \in
                    {FAdd(material_cost,
                          FMul(print_time_hr, Get(rates, "machine_rate", FInt(8))))} })
          : material_cost \in
              {FMul(FMul(mass_kg, material_price), Get(rates, "support_factor", Lit(14, 10)))},
            print_time_hr \in
              {FDiv(FMul(Get(rates, "time_per_cm3", FInt(2)), volume_cm3), FInt(60))} })

\* the printing formula with the quantity discount of the CNC formula
M_estimate_3d_printing_cost(mass_kg, volume_cm3, material_price, rates, quantity) ==
    The({ The({ [ process |-> "3d_printing",
                  unit_cost |-> RoundDec(unit_cost, 2),
                  total_cost |-> TotalCost(unit_cost, quantity),
                  breakdown |->
                    [ material |-> RoundDec(parts.material, 2),
                      machine_time |-> RoundDec(parts.machine, 2),
                      overhead |-> RoundDec(parts.overhead, 2) ],
                  lead_time_days |-> "3-5",
                  best_for |-> "Prototypes and low volume (<100 units)",
                  quantity |-> quantity,
                  mass_kg |-> RoundDec(mass_kg, 3),
                  print_time_hours |-> RoundDec(parts.print_time_hr, 1) ]
                : unit_cost \in {FMul(parts.unit_cost, VolumeDiscount(quantity))} })
          : parts \in {PrintParts(mass_kg, volume_cm3, material_price, rates)} })

_estimate_3d_printing_cost(mass_kg, volume_cm3, material_price, rates, quantity) ==
    The({ [ process |-> "3d_printing",
            unit_cost |-> RoundDec(parts.unit_cost, 2),
            total_cost |-> TotalCost(parts.unit_cost, quantity),
            breakdown |->
              [ material |-> RoundDec(parts.material, 2),
                machine_time |-> RoundDec(parts.machine, 2),
                overhead |-> RoundDec(parts.overhead, 2) ],
            lead_time_days |-> "3-5",
            best_for |-> "Prototypes and low volume (<100 units)",
            quantity |-> quantity,
            mass_kg |-> RoundDec(mass_kg, 3),
            print_time_hours |-> RoundDec(parts.print_time_hr, 1) ]
          : parts \in {PrintParts(mass_kg, volume_cm3, material_price, rates)} })

\* ------------------------------------------------------------------------
\* CostEstimator._estimate_injection_molding_cost
\* ------------------------------------------------------------------------
\* material, labor, amortized mold and overhead cost and the unit cost
MoldParts(mass_kg, material_price, rates, quantity) ==
    The({ The({ The({ [ material |-> material_cost, labor |-> labor_cost,
                        mold |-> mold_cost_per_part, overhead |-> overhead_cost,
                        unit_cost |-> FAdd(direct_cost, overhead_cost) ]
                      : overhead_cost \in
                          {FMul(direct_cost, Get(rates, "overhead_rate", Lit(20, 100)))} })
                : direct_cost \in
                    {FAdd(FAdd(material_cost, labor_cost), mold_cost_per_part)} })
          : material_cost \in {FMul(mass_kg, material_price)},
            labor_cost \in
              {FDiv(Get(rates, "labor_rate", FInt(12)),
                    FDiv(FInt(3600), Get(rates, "cycle_time", FInt(30))))},
            mold_cost_per_part \in
              {FDiv(Get(rates, "mold_cost", FInt(5000)), FInt(quantity))} })

_estimate_injection_molding_cost(mass_kg, volume_cm3, material_price, rates, quantity) ==
    IF FIsZero(Get(rates, "cycle_time", FInt(30))) \/ quantity = 0
    THEN Raise("ZeroDivisionError")
    ELSE The({ [ process |-> "injection_molding",
                 unit_cost |-> RoundDec(parts.unit_cost, 2),
                 total_cost |-> TotalCost(parts.unit_cost, quantity),
                 breakdown |->
                   [ material |-> RoundDec(parts.material, 2),
                     labor |-> RoundDec(parts.labor, 2),
                     mold_amortized |-> RoundDec(parts.mold, 2),
                     overhead |-> RoundDec(parts.overhead, 2) ],
                 lead_time_days |-> "14-21 (including tooling)",
                 best_for |-> "High volume (>1000 units)",
                 quantity |-> quantity,
                 mass_kg |-> RoundDec(mass_kg, 3),
                 mold_cost_total |-> Get(rates, "mold_cost", FInt(5000)) ]
               : parts \in {MoldParts(mass_kg, material_price, rates, quantity)} })

\* ------------------------------------------------------------------------
\* CostEstimator.estimate_cost
\* ------------------------------------------------------------------------
\* bounding_box.get('volume', 1000) / 1000
VolumeCm3(bbox) == FDiv(FInt(Get(bbox, "volume", 1000)), FInt(1000))

\* (volume_cm3 * density) / 1000 with the density of the material, 2.70 by default
MassKg(p, bbox) ==
    FDiv(FMul(VolumeCm3(bbox),
              Get(densities, Get(p, "material", "aluminum_6061_t6"), Lit(270, 100))),
         FInt(1000))

\* self.material_prices.get(material, 5.0)
MaterialPrice(p) == Get(material_prices, Get(p, "material", "aluminum_6061_t6"), FInt(5))

\* self.process_rates.get(process, {})
ProcessParams(p) ==
    Get(process_rates, Get(p, "manufacturing_process", "cnc_milling"), EmptyDict)

\* the dispatch with the printing formula as its last resort
M_estimate_cost(p, bbox, q) ==
    The({ IF process = "cnc_milling"
          THEN _estimate_cnc_cost(mass_kg, volume_cm3, material_price, process_params, q)
          ELSE IF process = "injection_molding"
          THEN _estimate_injection_molding_cost(mass_kg, volume_cm3, material_price,
                                                process_params, q)
          ELSE _estimate_3d_printing_cost(mass_kg, volume_cm3, material_price,
                                          process_params, q)
          : process \in {Get(p, "manufacturing_process", "cnc_milling")},
            volume_cm3 \in {VolumeCm3(bbox)},
            mass_kg \in {MassKg(p, bbox)},
            material_price \in {MaterialPrice(p)},
            process_params \in {ProcessParams(p)} })

estimate_cost(p, bbox, q) ==
    The({ IF process = "cnc_milling"
          THEN _estimate_cnc_cost(mass_kg, volume_cm3, material_price, process_params, q)
          ELSE IF process = "3d_printing"
          THEN _estimate_3d_printing_cost(mass_kg, volume_cm3, material_price,
                                          process_params, q)
          ELSE IF process = "injection_molding"
          THEN _estimate_injection_molding_cost(mass_kg, volume_cm3, material_price,
                                                process_params, q)
          ELSE _estimate_cnc_cost(mass_kg, volume_cm3, material_price, process_params, q)
          : process \in {Get(p, "manufacturing_process", "cnc_milling")},
            volume_cm3 \in {VolumeCm3(bbox)},
            mass_kg \in {MassKg(p, bbox)},
            material_price \in {MaterialPrice(p)},
            process_params \in {ProcessParams(p)} })

\* ------------------------------------------------------------------------
\* CostEstimator.compare_processes
\* ------------------------------------------------------------------------
processes == <<"cnc_milling", "3d_printing", "injection_molding">>

\* x placed before the first element it is not greater than
M_Insert(sorted, x) ==
    LET before == SelectSeq(sorted, LAMBDA e : e.unit_cost < x.unit_cost)
        after == SelectSeq(sorted, LAMBDA e : e.unit_cost >= x.unit_cost)
    IN  before \o <<x>> \o after

\* x placed after the elements of the sorted list that are not greater
Insert(sorted, x) ==
    LET before == SelectSeq(sorted, LAMBDA e : e.unit_cost <= x.unit_cost)
        after == SelectSeq(sorted, LAMBDA e : e.unit_cost > x.unit_cost)
    IN  before \o <<x>> \o after

RECURSIVE SortFrom(_, _, _)
SortFrom(list, i, sorted) ==
    IF i > Len(list) THEN sorted ELSE SortFrom(list, i + 1, Insert(sorted, list[i]))

\* list.sort(key=lambda x: x['unit_cost']): a stable sort
SortByUnitCost(list) == SortFrom(list, 1, <<>>)

\* temp_params = params.copy(); temp_params['manufacturing_process'] = process
TempParams(p, process) == ("manufacturing_process" :> process) @@ p

\* the loop over the processes: the estimates, in the order of the list
Estimates(p, bbox, q) ==
    [i \in 1..Len(processes) |-> estimate_cost(TempParams(p, processes[i]), bbox, q)]

\* the first exception the loop meets, if any
FirstRaise(estimates) ==
    LET failed == {i \in 1..Len(estimates) : IsRaise(estimates[i])}
    IN  IF failed = {} THEN EmptyDict
        ELSE estimates[CHOOSE i \in failed : \A j \in failed : i <= j]

\* the process of the last iteration of the loop: the one that raised, or
\* the last of the list
LastProcess(estimates) ==
    LET failed == {i \in 1..Len(estimates) : IsRaise(estimates[i])}
    IN  IF failed = {} THEN processes[Len(processes)]
        ELSE processes[CHOOSE i \in failed : \A j \in failed : i <= j]

\* temp_params is the caller's record itself: the loop writes into it
M_CallerParams(p, temp_params) == temp_params

\* temp_params is a copy: the caller's record after the loop wrote into it
CallerParams(p, temp_params) == p

\* the list returned when no estimate raises
compare_processes(p, bbox, q) == SortByUnitCost(Estimates(p, bbox, q))

\* ------------------------------------------------------------------------
\* Strings that are searched or case-folded: sequences of characters
\* ------------------------------------------------------------------------
UpperLetters ==
    <<"A", "B", "C", "D", "E", "F", "G", "H", "I", "J", "K", "L", "M",
      "N", "O", "P", "Q", "R", "S", "T", "U", "V", "W", "X", "Y", "Z">>

LowerLetters ==
    <<"a", "b", "c", "d", "e", "f", "g", "h", "i", "j", "k", "l", "m",
      "n", "o", "p", "q", "r", "s", "t", "u", "v", "w", "x", "y", "z">>

IndexIn(letters, c) == CHOOSE i \in 1..Len(letters) : letters[i] = c

LowerChar(c) ==
    IF \E i \in 1..Len(UpperLetters) : UpperLetters[i] = c
    THEN LowerLetters[IndexIn(UpperLetters, c)] ELSE c

UpperChar(c) ==
    IF \E i \in 1..Len(LowerLetters) : LowerLetters[i] = c
    THEN UpperLetters[IndexIn(LowerLetters, c)] ELSE c

\* str.lower() and str.upper()
lower(s) == [i \in 1..Len(s) |-> LowerChar(s[i])]
upper(s) == [i \in 1..Len(s) |-> UpperChar(s[i])]

\* the operator "s in t" of two strings
In(s, t) == \E i \in 0..(Len(t) - Len(s)) : SubSeq(t, i + 1, i + Len(s)) = s

\* ------------------------------------------------------------------------
\* ComponentLibrary: the table (numbers in hundredths)
\* ------------------------------------------------------------------------
components ==
    [
     nema_motors |-> <<
         [name |-> <<"N", "E", "M", "A", "1", "1">>, size |-> 1100,
          face_width |-> 2800, face_height |-> 2800, hole_spacing |-> 2300,
          bolt_size |-> "M2.5", hole_diameter |-> 270, shaft_diameter |-> 500,
          typical_length |-> 3000],
         [name |-> <<"N", "E", "M", "A", "1", "4">>, size |-> 1400,
          face_width |-> 3520, face_height |-> 3520, hole_spacing |-> 2600,
          bolt_size |-> "M3", hole_diameter |-> 320, shaft_diameter |-> 500,
          typical_length |-> 3600],
         [name |-> <<"N", "E", "M", "A", "1", "7">>, size |-> 1700,
          face_width |-> 4230, face_height |-> 4230, hole_spacing |-> 3100,
          bolt_size |-> "M3", hole_diameter |-> 320, shaft_diameter |-> 500,
          typical_length |-> 4700],
         [name |-> <<"N", "E", "M", "A", "2", "3">>, size |-> 2300,
          face_width |-> 5640, face_height |-> 5640, hole_spacing |-> 4714,
          bolt_size |-> "M4", hole_diameter |-> 450, shaft_diameter |-> 635,
          typical_length |-> 7600],
         [name |-> <<"N", "E", "M", "A", "3", "4">>, size |-> 3400,
          face_width |-> 8600, face_height |-> 8600, hole_spacing |-> 6960,
          bolt_size |-> "M6", hole_diameter |-> 660, shaft_diameter |-> 1400,
          typical_length |-> 9800]
     >>,
     metric_bolts |-> <<
         [name |-> <<"M", "3">>, diameter |-> 300, clearance_hole |-> 320,
          close_fit |-> 310, thread_pitch |-> 50],
         [name |-> <<"M", "4">>, diameter |-> 400, clearance_hole |-> 450,
          close_fit |-> 420, thread_pitch |-> 70],
         [name |-> <<"M", "5">>, diameter |-> 500, clearance_hole |-> 550,
          close_fit |-> 520, thread_pitch |-> 80],
         [name |-> <<"M", "6">>, diameter |-> 600, clearance_hole |-> 660,
          close_fit |-> 620, thread_pitch |-> 100],
         [name |-> <<"M", "8">>, diameter |-> 800, clearance_hole |-> 900,
          close_fit |-> 840, thread_pitch |-> 125],
         [name |-> <<"M", "1", "0">>, diameter |-> 1000, clearance_hole |-> 1100,
          close_fit |-> 1050, thread_pitch |-> 150],
         [name |-> <<"M", "1", "2">>, diameter |-> 1200, clearance_hole |-> 1350,
          close_fit |-> 1260, thread_pitch |-> 175]
     >>,
     bearings |-> <<
         [name |-> <<"6", "0", "8">>, type |-> "deep_groove", inner_diameter |-> 800,
          outer_diameter |-> 2200, width |-> 700, load_rating |-> 360000],
         [name |-> <<"6", "0", "0", "0">>, type |-> "deep_groove",
          inner_diameter |-> 1000, outer_diameter |-> 2600, width |-> 800,
          load_rating |-> 450000],
         [name |-> <<"6", "0", "0", "1">>, type |-> "deep_groove",
          inner_diameter |-> 1200, outer_diameter |-> 2800, width |-> 800,
          load_rating |-> 500000],
         [name |-> <<"6", "0", "0", "2">>, type |-> "deep_groove",
          inner_diameter |-> 1500, outer_diameter |-> 3200, width |-> 900,
          load_rating |-> 560000],
         [name |-> <<"6", "0", "0", "3">>, type |-> "deep_groove",
          inner_diameter |-> 1700, outer_diameter |-> 3500, width |-> 1000,
          load_rating |-> 620000],
         [name |-> <<"6", "0", "0", "4">>, type |-> "deep_groove",
          inner_diameter |-> 2000, outer_diameter |-> 4200, width |-> 1200,
          load_rating |-> 950000],
         [name |-> <<"6", "0", "0", "5">>, type |-> "deep_groove",
          inner_diameter |-> 2500, outer_diameter |-> 4700, width |-> 1200,
          load_rating |-> 1020000],
         [name |-> <<"6", "0", "0", "6">>, type |-> "deep_groove",
          inner_diameter |-> 3000, outer_diameter |-> 5500, width |-> 1300,
          load_rating |-> 1180000]
     >>,
     connectors |-> <<
         [name |-> <<"U", "S", "B", "-", "A">>, width |-> 1200, height |-> 450,
          depth |-> 1400, type |-> "usb"],
         [name |-> <<"U", "S", "B", "-", "C">>, width |-> 840, height |-> 260,
          depth |-> 730, type |-> "usb"],
         [name |-> <<"U", "S", "B", "-", "M", "i", "c", "r", "o">>, width |-> 685,
          height |-> 180, depth |-> 750, type |-> "usb"],
         [name |-> <<"D", "B", "9">>, width |-> 3080, height |-> 1250, pins |-> 900,
          type |-> "d_sub"],
         [name |-> <<"D", "B", "2", "5">>, width |-> 4780, height |-> 1250,
          pins |-> 2500, type |-> "d_sub"]
     >>
    ]

\* the keys of the table, in the order of insertion
component_keys == <<"nema_motors", "metric_bolts", "bearings", "connectors">>

\* an optional argument: <<>> is None, <<v>> is the value v
None == <<>>
Some(v) == <<v>>

\* the truth value of an optional string: None and "" are false
Truthy(category) == category # None /\ category[1] # ""

\* ------------------------------------------------------------------------
\* ComponentLibrary.search
\* ------------------------------------------------------------------------
\* [category] if category else self.components.keys()
CategoriesToSearch(category) ==
    IF Truthy(category) THEN <<category[1]>> ELSE component_keys

\* {'category': cat, **component}
Annotated(cat, component) == component @@ ("category" :> cat)

\* the matches that one category appends
M_SearchCategory(query_lower, cat) ==
    IF cat \in DOMAIN components
    THEN LET hits == SelectSeq(components[cat],
                               LAMBDA component : query_lower = lower(component.name))
         IN  [i \in 1..Len(hits) |-> Annotated(cat, hits[i])]
    ELSE <<>>

SearchCategory(query_lower, cat) ==
    IF cat \in DOMAIN components
    THEN LET hits == SelectSeq(components[cat],
                               LAMBDA component : In(query_lower, lower(component.name)))
         IN  [i \in 1..Len(hits) |-> Annotated(cat, hits[i])]
    ELSE <<>>

RECURSIVE SearchFrom(_, _, _, _)
SearchFrom(query_lower, cats, i, results) ==
    IF i > Len(cats) THEN results
    ELSE SearchFrom(query_lower, cats, i + 1,
                    results \o SearchCategory(query_lower, cats[i]))

search(query, category) ==
    SearchFrom(lower(query), CategoriesToSearch(category), 1, <<>>)

\* ------------------------------------------------------------------------
\* ComponentLibrary.get_component, get_all_categories, get_category
\* ------------------------------------------------------------------------
\* the first component of the list whose name matches, or None
M_FirstNamed(list, name) ==
    LET hits == SelectSeq(list, LAMBDA component : In(upper(name), upper(component.name)))
    IN  IF hits = <<>> THEN None ELSE Some(hits[1])

FirstNamed(list, name) ==
    LET hits == SelectSeq(list, LAMBDA component : upper(component.name) = upper(name))
    IN  IF hits = <<>> THEN None ELSE Some(hits[1])

get_component(category, name) ==
    IF category \in DOMAIN components
    THEN FirstNamed(components[category], name)
    ELSE None

get_all_categories == component_keys

get_category(category) ==
    IF category \in DOMAIN components THEN components[category] ELSE <<>>

\* ------------------------------------------------------------------------
\* CADGenerator.generate_custom: the generator that the dispatch calls
\* ------------------------------------------------------------------------
Bracket == <<"b", "r", "a", "c", "k", "e", "t">>
Box == <<"b", "o", "x">>
Housing == <<"h", "o", "u", "s", "i", "n", "g">>
Cylinder == <<"c", "y", "l", "i", "n", "d", "e", "r">>
Gear == <<"g", "e", "a", "r">>

\* the comparison of the dispatch without the case folding
M_GeometryType(p) == Get(p, "type", Box)

\* params.get('type', 'box').lower()
GeometryType(p) == lower(Get(p, "type", Box))

generate_custom(p) ==
    LET geometry_type == GeometryType(p)
    IN  IF geometry_type = Bracket THEN "generate_bracket"
        ELSE IF geometry_type = Box \/ geometry_type = Housing THEN "generate_box"
        ELSE IF geometry_type = Cylinder THEN "generate_cylinder"
        ELSE IF geometry_type = Gear THEN "generate_gear"
        ELSE "generate_box"

\* ------------------------------------------------------------------------
\* Inputs of validate
\* ------------------------------------------------------------------------
MaterialInputs == {"aluminum_6061_t6", "plastic_abs", "stainless_304", "titanium"}
ProcessInputs == {"cnc_milling", "3d_printing"}
WallInputs == {5, 10, 90, 110}
HoleDiameterInputs == {25, 80}
Points == {<<200, 200>>, <<230, 240>>, <<220, 200>>}
BaseInputs == {EmptyDict, ("base_length" :> 300) @@ ("base_width" :> 300)}

PositionInputs == UNION {[1..n -> Points] : n \in 0..MaxHoles}

GeometryInputs == {w @@ b : w \in Opt("wall_thickness", WallInputs), b \in BaseInputs}

MountingInputs ==
    {d @@ ps : d \in Opt("hole_diameter", HoleDiameterInputs),
               ps \in Opt("positions", PositionInputs)}

ParamInputs ==
    {m @@ pr @@ g @@ mp :
        m \in Opt("material", MaterialInputs),
        pr \in Opt("manufacturing_process", ProcessInputs),
        g \in Opt("primary_geometry", GeometryInputs),
        mp \in Opt("mounting_pattern", MountingInputs)}

\* ------------------------------------------------------------------------
\* Inputs of estimate_cost and compare_processes
\* ------------------------------------------------------------------------
CostMaterialInputs == {"aluminum_6061_t6", "steel_mild", "plastic_abs", "brass"}
CostProcessInputs ==
    {"cnc_milling", "3d_printing", "injection_molding", "sheet_metal", "laser_cutting"}
VolumeInputs == {0, 100000, 400000}
QuantityInputs == {0, 1, 99, 100, 499, 500, 999, 1000, 1764}

CostParamInputs ==
    {m @@ pr : m \in Opt("material", CostMaterialInputs),
               pr \in Opt("manufacturing_process", CostProcessInputs)}

\* ------------------------------------------------------------------------
\* Inputs of search, get_component and get_category
\* ------------------------------------------------------------------------
MaxQueryLen == 2
QueryChars == {"n", "N", "6", "0", "M", "1"}

\* every string of at most n characters of the set
Strings(chars, n) == UNION {[1..k -> chars] : k \in 0..n}

QueryInputs ==
    Strings(QueryChars, MaxQueryLen)
        \cup {<<"N", "E", "M", "A", "1", "7">>, <<"n", "e", "m", "a", "1", "7">>,
              <<"N", "e", "M", "a">>, <<"u", "s", "b">>, <<"U", "S", "B", "-">>,
              <<"M", "I", "C", "R", "O">>, <<"6", "0", "0">>, <<"D", "B">>,
              <<"N", "E", "M", "A", "1", "7", "0">>, <<"x">>}

NameInputs ==
    {<<"N", "E", "M", "A", "1", "7">>, <<"n", "e", "m", "a", "1", "7">>,
     <<"N", "E", "M", "A">>, <<"m", "3">>, <<"M", "1">>, <<"M", "1", "0">>,
     <<"6", "0", "8">>, <<"6", "0", "0">>, <<"u", "s", "b", "-", "m", "i", "c", "r", "o">>,
     <<"U", "S", "B", "-", "M", "i", "c", "r", "o">>, <<"d", "b", "9">>, <<>>}

CategoryNames ==
    {"nema_motors", "metric_bolts", "bearings", "connectors",
     "NEMA_MOTORS", "gears", ""}

CategoryInputs == {None} \cup {Some(c) : c \in CategoryNames}

\* ------------------------------------------------------------------------
\* Inputs of generate_custom
\* ------------------------------------------------------------------------
\* the spellings of a word in upper and lower case
Spellings(word) ==
    {[i \in 1..Len(word) |-> IF i \in capitals THEN UpperChar(word[i]) ELSE word[i]] :
        capitals \in SUBSET (1..Len(word))}

TypeInputs ==
    Spellings(Bracket) \cup Spellings(Box) \cup Spellings(Housing)
        \cup Spellings(Gear) \cup Spellings(Cylinder)
        \cup {<<"p", "l", "a", "t", "e">>, <<>>, <<"b", "o">>, <<" ", "b", "o", "x">>,
              <<"b", "r", "a", "c", "k", "e", "t", "s">>, <<"G", "E", "A", "R", "S">>}

GeometryParamInputs == Opt("type", TypeInputs)

\* ------------------------------------------------------------------------
\* State
\* ------------------------------------------------------------------------
VARIABLES
    pc,            \* "call" before the operation runs, then "returned" or "raised"
    op,            \* the operation that ran
    params,        \* the caller's parameter record
    result,        \* the ValidationResult returned by validate
    bounding_box,  \* the caller's bounding box
    quantity,      \* the requested quantity
    costs,         \* the estimate returned by estimate_cost
    comparisons,   \* the list returned by compare_processes
    query,         \* the query of search
    category,      \* the optional category of search, get_component, get_category
    name,          \* the name of get_component
    results,       \* the list returned by search or get_category
    component,     \* the optional component returned by get_component
    generator,     \* the generator that generate_custom called
    designs,       \* db.designs: the stored design of each id
    requests       \* the requests of the design endpoints and where each one is

vars == <<pc, op, params, result, bounding_box, quantity, costs, comparisons,
          query, category, name, results, component, generator,
          material_prices, process_rates, designs, requests>>

servervars == <<designs, requests>>

\* the number of requests the server is sent
MaxRequests == 3
Requests == 1..MaxRequests

\* a request that has not arrived yet
NoRequest ==
    [ endpoint |-> "none", at |-> "idle", design_id |-> 0, found |-> FALSE,
      parameters |-> <<>>, dfm_result |-> <<>>, status_code |-> 0 ]

\* the server before the first request: an empty collection
ServerIdle ==
    /\ designs = <<>>
    /\ requests = [r \in Requests |-> NoRequest]


\* the state of the component library and of the geometry dispatch at rest
LibraryIdle ==
    /\ query = <<>>
    /\ category = None
    /\ name = <<>>
    /\ results = <<>>
    /\ component = None
    /\ generator = "none"

libvars == <<query, category, name, results, component, generator>>

InitDFM ==
    /\ pc = "call"
    /\ op = "none"
    /\ params \in ParamInputs
    /\ result = EmptyDict
    /\ bounding_box = EmptyDict
    /\ quantity = 100
    /\ costs = EmptyDict
    /\ comparisons = <<>>
    /\ TablesLoaded
    /\ ServerIdle
    /\ LibraryIdle

Validate ==
    /\ pc = "call"
    /\ result' = validate(params)
    /\ pc' = "returned"
    /\ op' = "validate"
    /\ UNCHANGED <<params, bounding_box, quantity, costs, comparisons>>
    /\ UNCHANGED libvars
    /\ UNCHANGED tables
    /\ UNCHANGED servervars

NextDFM == Validate

SpecDFM == InitDFM /\ [][NextDFM]_vars

InitCost ==
    /\ pc = "call"
    /\ op = "none"
    /\ params \in CostParamInputs
    /\ result = EmptyDict
    /\ bounding_box \in {[volume |-> v] : v \in VolumeInputs}
    /\ quantity \in QuantityInputs
    /\ costs = EmptyDict
    /\ comparisons = <<>>
    /\ TablesLoaded
    /\ ServerIdle
    /\ LibraryIdle

EstimateCost ==
    /\ pc = "call"
    /\ LET r == estimate_cost(params, bounding_box, quantity)
       IN  /\ costs' = r
           /\ pc' = IF IsRaise(r) THEN "raised" ELSE "returned"
    /\ op' = "estimate_cost"
    /\ UNCHANGED <<params, result, bounding_box, quantity, comparisons>>
    /\ UNCHANGED libvars
    /\ UNCHANGED tables
    /\ UNCHANGED servervars

CompareProcesses ==
    /\ pc = "call"
    /\ \E estimates \in {Estimates(params, bounding_box, quantity)} :
           /\ IF IsRaise(FirstRaise(estimates))
              THEN /\ pc' = "raised"
                   /\ costs' = FirstRaise(estimates)
                   /\ UNCHANGED comparisons
              ELSE /\ pc' = "returned"
                   /\ comparisons' = compare_processes(params, bounding_box, quantity)
                   /\ UNCHANGED costs
           /\ params' = CallerParams(params, TempParams(params, LastProcess(estimates)))
    /\ op' = "compare_processes"
    /\ UNCHANGED <<result, bounding_box, quantity>>
    /\ UNCHANGED libvars
    /\ UNCHANGED tables
    /\ UNCHANGED servervars

NextCost == EstimateCost \/ CompareProcesses

SpecCost == InitCost /\ [][NextCost]_vars

\* ------------------------------------------------------------------------
\* The component library
\* ------------------------------------------------------------------------
costvars == <<params, result, bounding_box, quantity, costs, comparisons>>

InitLib ==
    /\ pc = "call"
    /\ op = "none"
    /\ params = EmptyDict
    /\ result = EmptyDict
    /\ bounding_box = EmptyDict
    /\ quantity = 100
    /\ costs = EmptyDict
    /\ comparisons = <<>>
    /\ TablesLoaded
    /\ ServerIdle
    /\ query \in QueryInputs
    /\ category \in CategoryInputs
    /\ name \in NameInputs
    /\ results = <<>>
    /\ component = None
    /\ generator = "none"

Search ==
    /\ pc = "call"
    /\ results' = search(query, category)
    /\ pc' = "returned"
    /\ op' = "search"
    /\ UNCHANGED <<query, category, name, component, generator>>
    /\ UNCHANGED costvars
    /\ UNCHANGED tables
    /\ UNCHANGED servervars

\* the category of get_component and get_category is a string
GetComponent ==
    /\ pc = "call"
    /\ category # None
    /\ component' = get_component(category[1], name)
    /\ pc' = "returned"
    /\ op' = "get_component"
    /\ UNCHANGED <<query, category, name, results, generator>>
    /\ UNCHANGED costvars
    /\ UNCHANGED tables
    /\ UNCHANGED servervars

GetAllCategories ==
    /\ pc = "call"
    /\ results' = get_all_categories
    /\ pc' = "returned"
    /\ op' = "get_all_categories"
    /\ UNCHANGED <<query, category, name, component, generator>>
    /\ UNCHANGED costvars
    /\ UNCHANGED tables
    /\ UNCHANGED servervars

GetCategory ==
    /\ pc = "call"
    /\ category # None
    /\ results' = get_category(category[1])
    /\ pc' = "returned"
    /\ op' = "get_category"
    /\ UNCHANGED <<query, category, name, component, generator>>
    /\ UNCHANGED costvars
    /\ UNCHANGED tables
    /\ UNCHANGED servervars

NextLib == Search \/ GetComponent \/ GetAllCategories \/ GetCategory

SpecLib == InitLib /\ [][NextLib]_vars

\* ------------------------------------------------------------------------
\* The geometry dispatch
\* ------------------------------------------------------------------------
InitCAD ==
    /\ pc = "call"
    /\ op = "none"
    /\ params \in GeometryParamInputs
    /\ result = EmptyDict
    /\ bounding_box = EmptyDict
    /\ quantity = 100
    /\ costs = EmptyDict
    /\ comparisons = <<>>
    /\ TablesLoaded
    /\ ServerIdle
    /\ LibraryIdle

GenerateCustom ==
    /\ pc = "call"
    /\ generator' = generate_custom(params)
    /\ pc' = "returned"
    /\ op' = "generate_custom"
    /\ UNCHANGED <<query, category, name, results, component>>
    /\ UNCHANGED costvars
    /\ UNCHANGED tables
    /\ UNCHANGED servervars

NextCAD == GenerateCustom

SpecCAD == InitCAD /\ [][NextCAD]_vars

\* ------------------------------------------------------------------------
\* The design endpoints of the server.  Each action is one await of a
\* handler with the code that follows it up to the next await.  Of a stored
\* design the model keeps parameters, dfm_validation and status.
\* ------------------------------------------------------------------------
\* NLPtoCADParser._get_default_params (lengths in tenths of a millimetre)
_get_default_params ==
    [ primary_geometry |->
        [ type |-> Box, base_length |-> 1000, base_width |-> 800, height |-> 500,
          wall_thickness |-> 25 ],
      material |-> "aluminum_6061_t6",
      manufacturing_process |-> "cnc_milling" ]

\* the parameters nlp_parser.parse may return: the defaults, or the same part
\* with a wall of 1.0mm
ParsedInputs ==
    { _get_default_params,
      [_get_default_params EXCEPT !.primary_geometry.wall_thickness = 10] }

\* the design ids that requests name
DesignIdInputs == {1, 2}

\* the quantities of estimate_cost requests
RequestQuantityInputs == {0, 100}

\* the formats of export_design requests
FormatInputs == {<<"s", "t", "e", "p">>, <<"S", "T", "P">>, <<"S", "t", "l">>, <<"d", "x", "f">>}

\* Design(...).id, a fresh uuid: ids are numbered in the order of their creation
NextDesignId ==
    1 + Cardinality({r \in Requests : /\ requests[r].endpoint = "generate_design"
                                      /\ requests[r].at # "idle"})

\* "validated" if dfm_result.get('valid', False) else "draft"
StatusOf(dfm_result) == IF Get(dfm_result, "valid", FALSE) THEN "validated" ELSE "draft"

\* db.designs.insert_one
InsertOne(store, id, design) == (id :> design) @@ store

\* db.designs.update_one({"id": id}, {"$set": fields}): no design, no change
UpdateOne(store, id, fields) ==
    IF id \in DOMAIN store THEN (id :> (fields @@ store[id])) @@ store ELSE store

\* db.designs.delete_one
DeleteOne(store, id) == [i \in DOMAIN store \ {id} |-> store[i]]

\* the request r answered with a status code
Answered(r, request, code) ==
    [requests EXCEPT ![r] = [request EXCEPT !.at = "done", !.status_code = code]]

\* the request r of an endpoint for a design, as it arrives
Arrived(endpoint, id) ==
    [NoRequest EXCEPT !.endpoint = endpoint, !.design_id = id,
                      !.found = id \in DOMAIN designs]

\* the status code of the handlers whose "except Exception" catches the
\* HTTPException they raise themselves: every one of them becomes a 500
Caught(code) == 500

othervars ==
    <<pc, op, params, result, bounding_box, quantity, costs, comparisons,
      query, category, name, results, component, generator, material_prices, process_rates>>

\* generate_design: params = await nlp_parser.parse(...), then the validation
\* and the construction of the design
GenerateParse(r) ==
    /\ requests[r].at = "idle"
    /\ \E p \in ParsedInputs :
           requests' = [requests EXCEPT ![r] =
                           [NoRequest EXCEPT !.endpoint = "generate_design",
                                             !.at = "insert_one",
                                             !.design_id = NextDesignId,
                                             !.parameters = p,
                                             !.dfm_result = validate(p)]]
    /\ UNCHANGED designs
    /\ UNCHANGED othervars

\* generate_design: await db.designs.insert_one(design_dict)
GenerateInsert(r) ==
    /\ requests[r].endpoint = "generate_design"
    /\ requests[r].at = "insert_one"
    /\ designs' = InsertOne(designs, requests[r].design_id,
                            [ parameters |-> requests[r].parameters,
                              dfm_validation |-> requests[r].dfm_result,
                              status |-> StatusOf(requests[r].dfm_result) ])
    /\ requests' = Answered(r, requests[r], 200)
    /\ UNCHANGED othervars

\* get_design: its HTTPException is raised again as it is
GetDesign(r) ==
    /\ requests[r].at = "idle"
    /\ \E id \in DesignIdInputs :
           requests' = Answered(r, Arrived("get_design", id),
                                IF id \in DOMAIN designs THEN 200 ELSE 404)
    /\ UNCHANGED designs
    /\ UNCHANGED othervars

\* edit_design: design = await db.designs.find_one(...)
EditFind(r) ==
    /\ requests[r].at = "idle"
    /\ \E id \in DesignIdInputs :
           requests' =
               IF id \in DOMAIN designs
               THEN [requests EXCEPT ![r] =
                        [Arrived("edit_design", id) EXCEPT !.at = "parse"]]
               ELSE Answered(r, Arrived("edit_design", id), Caught(404))
    /\ UNCHANGED designs
    /\ UNCHANGED othervars

\* edit_design: updated_params = await nlp_parser.parse(edit_prompt), then
\* the validation of the updated parameters
EditParse(r) ==
    /\ requests[r].endpoint = "edit_design"
    /\ requests[r].at = "parse"
    /\ \E p \in ParsedInputs :
           requests' = [requests EXCEPT ![r] =
                           [requests[r] EXCEPT !.at = "update_one",
                                               !.parameters = p,
                                               !.dfm_result = validate(p)]]
    /\ UNCHANGED designs
    /\ UNCHANGED othervars

\* edit_design: await db.designs.update_one(...), which sets parameters and
\* dfm_validation and leaves status
EditUpdate(r) ==
    /\ requests[r].endpoint = "edit_design"
    /\ requests[r].at = "update_one"
    /\ designs' = UpdateOne(designs, requests[r].design_id,
                            [ parameters |-> requests[r].parameters,
                              dfm_validation |-> requests[r].dfm_result ])
    /\ requests' = Answered(r, requests[r], 200)
    /\ UNCHANGED othervars

\* validate_design: design = await db.designs.find_one(...), then the
\* validation of the parameters that were read
ValidateFind(r) ==
    /\ requests[r].at = "idle"
    /\ \E id \in DesignIdInputs :
           requests' =
               IF id \in DOMAIN designs
               THEN [requests EXCEPT ![r] =
                        [Arrived("validate_design", id) EXCEPT
                            !.at = "update_one",
                            !.parameters = designs[id].parameters,
                            !.dfm_result = validate(designs[id].parameters)]]
               ELSE Answered(r, Arrived("validate_design", id), Caught(404))
    /\ UNCHANGED designs
    /\ UNCHANGED othervars

\* validate_design: await db.designs.update_one(...), which sets dfm_validation
ValidateUpdate(r) ==
    /\ requests[r].endpoint = "validate_design"
    /\ requests[r].at = "update_one"
    /\ designs' = UpdateOne(designs, requests[r].design_id,
                            [dfm_validation |-> requests[r].dfm_result])
    /\ requests' = Answered(r, requests[r], 200)
    /\ UNCHANGED othervars

\* estimate_cost of the server: compare_processes evaluates the CNC formula,
\* which divides by the quantity
EstimateCostRequest(r) ==
    /\ requests[r].at = "idle"
    /\ \E id \in DesignIdInputs, q \in RequestQuantityInputs :
           requests' = Answered(r, Arrived("estimate_cost", id),
                                IF id \notin DOMAIN designs THEN Caught(404)
                                ELSE IF q = 0 THEN 500 ELSE 200)
    /\ UNCHANGED designs
    /\ UNCHANGED othervars

\* export_design: exported says whether export_step or export_stl succeeded
ExportDesign(r) ==
    /\ requests[r].at = "idle"
    /\ \E id \in DesignIdInputs, format \in FormatInputs, exported \in BOOLEAN :
           requests' = Answered(r, Arrived("export_design", id),
                                IF id \notin DOMAIN designs THEN Caught(404)
                                ELSE IF lower(format) \in {<<"s", "t", "e", "p">>,
                                                          <<"s", "t", "p">>, <<"s", "t", "l">>}
                                     THEN (IF exported THEN 200 ELSE Caught(500))
                                ELSE Caught(400))
    /\ UNCHANGED designs
    /\ UNCHANGED othervars

\* delete_design: result = await db.designs.delete_one(...)
DeleteDesign(r) ==
    /\ requests[r].at = "idle"
    /\ \E id \in DesignIdInputs :
           /\ designs' = DeleteOne(designs, id)
           /\ requests' = Answered(r, Arrived("delete_design", id),
                                   IF id \in DOMAIN designs THEN 200 ELSE Caught(404))
    /\ UNCHANGED othervars

InitServer ==
    /\ pc = "call"
    /\ op = "none"
    /\ params = EmptyDict
    /\ result = EmptyDict
    /\ bounding_box = EmptyDict
    /\ quantity = 100
    /\ costs = EmptyDict
    /\ comparisons = <<>>
    /\ TablesLoaded
    /\ ServerIdle
    /\ LibraryIdle

NextServer ==
    \E r \in Requests :
        \/ GenerateParse(r)
        \/ GenerateInsert(r)
        \/ GetDesign(r)
        \/ EditFind(r)
        \/ EditParse(r)
        \/ EditUpdate(r)
        \/ ValidateFind(r)
        \/ ValidateUpdate(r)
        \/ EstimateCostRequest(r)
        \/ ExportDesign(r)
        \/ DeleteDesign(r)

SpecServer == InitServer /\ [][NextServer]_vars

\* ------------------------------------------------------------------------
\* Properties of validate
\* ------------------------------------------------------------------------
Returned == pc = "returned" /\ op = "validate"

ResolvedMaterial == Get(params, "material", "aluminum_6061_t6")
ResolvedProcess == Get(params, "manufacturing_process", "cnc_milling")

\* the rule table has an entry for the resolved (material, process)
HasRules ==
    /\ ResolvedMaterial \in DOMAIN Rules
    /\ ResolvedProcess \in DOMAIN Rules[ResolvedMaterial]

RuleSet == Rules[ResolvedMaterial][ResolvedProcess]

HasMounting == "mounting_pattern" \in DOMAIN params

InputWall == Get(Get(params, "primary_geometry", EmptyDict), "wall_thickness", 20)
InputPositions == Get(Get(params, "mounting_pattern", EmptyDict), "positions", <<>>)

\* the findings of type t in a list
OfType(list, t) == SelectSeq(list, LAMBDA f : f.type = t)

\* the literal 0.8
Lit08 == Lit(8, 10)

\* C1: when the rule set exists and the wall is thinner than its
\* min_wall_thickness, validate reports exactly one wall_thickness issue, of
\* severity critical, and valid = false; without a mounting pattern the
\* confidence is 0.8 and the dfm_score 80.
C1_ThinWallIsCritical ==
    (Returned /\ HasRules /\ InputWall < RuleSet.min_wall_thickness) =>
        /\ Len(OfType(result.issues, "wall_thickness")) = 1
        /\ OfType(result.issues, "wall_thickness")[1].severity = "critical"
        /\ result.valid = FALSE
        /\ ~HasMounting =>
             /\ result.confidence = Lit08
             /\ result.dfm_score = 80

\* the scenario of C1: aluminum_6061_t6, cnc_milling, 1.0mm, no mounting pattern
C1_Witness ==
    /\ Returned
    /\ ResolvedMaterial = "aluminum_6061_t6" /\ ResolvedProcess = "cnc_milling"
    /\ InputWall = 10 /\ ~HasMounting
    /\ result.valid = FALSE /\ result.dfm_score = 80

\* round(x * 100) of a float x >= 0: nearest integer, ties to even
RoundScore(x) == LET prod == FMul(x, FInt(100)) IN RoundHalfEven(prod.m, prod.e)

\* C2: every result of validate carries a confidence in [0,1] and an integer
\* dfm_score in [0,100] equal to round(confidence x 100).
C2_ScoreIsRoundedConfidence ==
    Returned =>
        /\ ~result.confidence.neg /\ ~FLess(Lit10, result.confidence)
        /\ "dfm_score" \in DOMAIN result
        /\ result.dfm_score \in 0..100
        /\ result.dfm_score = RoundScore(result.confidence)

\* |10 * x - k| < 2^-40 for a float x >= 0 and an integer k >= 0, exactly
NearTenths(x, k) ==
    LET e == Min(x.e, 0)
        a == NShl(NMul(x.m, NFromInt(10)), x.e - e)
        b == NShl(NFromInt(k), 0 - e)
        d == IF NLess(a, b) THEN NSub(b, a) ELSE NSub(a, b)
    IN  IF 0 - e >= 40 THEN NLess(d, NShl(<<1>>, 0 - e - 40)) ELSE Len(d) = 0

\* max(0, min(10, 10 - 2i - w)): the clamped confidence in tenths
ClampTenths(i, w) ==
    LET t == 10 - 2 * i - w
    IN  IF t < 0 THEN 0 ELSE IF t > 10 THEN 10 ELSE t

\* max(0, min(1, 1.0 - 0.2 * i - 0.1 * w)) evaluated in binary64, left to right
FormulaConfidence(i, w) ==
    Clamp(FSub(FSub(Lit10, FMul(Lit02, FInt(i))), FMul(Lit01, FInt(w))))

\* C3: with a rule set, the confidence is max(0, min(1, 1.0 - 0.2 x issues -
\* 0.1 x warnings)): the binary64 value of that expression, which is within
\* 2^-40 of the exact tenth; the suggestions do not enter it.
C3_ConfidenceFormula ==
    (Returned /\ HasRules) =>
        /\ result.confidence = FormulaConfidence(Len(result.issues), Len(result.warnings))
        /\ NearTenths(result.confidence,
                      ClampTenths(Len(result.issues), Len(result.warnings)))

C3_Witness ==
    /\ Returned /\ HasRules
    /\ Len(result.issues) = 1 /\ Len(result.warnings) = 3
    /\ result.dfm_score = 50

C3_WitnessSuggestion ==
    /\ Returned /\ HasRules
    /\ Len(result.suggestions) = 1 /\ Len(result.warnings) = 2 /\ Len(result.issues) = 0
    /\ result.dfm_score = 80

\* C4: valid is true exactly when the issues list is empty, whatever the
\* warnings and suggestions.
C4_ValidIffNoIssues ==
    Returned => (result.valid = TRUE <=> Len(result.issues) = 0)

C4_Witness ==
    /\ Returned /\ HasRules
    /\ Len(result.issues) = 0 /\ Len(result.warnings) >= 2 /\ Len(result.suggestions) = 1
    /\ result.valid = TRUE

\* C5: with no rule set for the resolved (material, process), validate
\* returns valid = true, no issues, no suggestions, the single no-rules
\* warning and confidence 0.5, whatever the geometry and mounting pattern.
C5_NoRulesPassThrough ==
    (Returned /\ ~HasRules) =>
        /\ result.valid = TRUE
        /\ result.issues = <<>>
        /\ result.suggestions = <<>>
        /\ Len(result.warnings) = 1
        /\ result.warnings[1].type = "no_rules_found"
        /\ result.confidence = Lit05

\* a thin wall, a small hole and coinciding holes, and no rule set
C5_Witness ==
    /\ Returned /\ ~HasRules
    /\ InputWall = 5 /\ HasMounting
    /\ Get(params["mounting_pattern"], "hole_diameter", 45) = 25
    /\ Len(InputPositions) = 2 /\ InputPositions[1] = InputPositions[2]
    /\ result.valid = TRUE

\* the index pairs i < j of the mounting pattern closer than the minimum spacing
OffendingPairs ==
    {pr \in (1..Len(InputPositions)) \X (1..Len(InputPositions)) :
        /\ pr[1] < pr[2]
        /\ TooClose(InputPositions[pr[1]], InputPositions[pr[2]],
                    Get(RuleSet, "min_hole_spacing", 50))}

\* C6: validate emits one hole_spacing warning per index pair i < j closer
\* than the minimum spacing and no other, and each one lowers the confidence
\* by 0.1 until the clamp at 0.
C6_OneWarningPerClosePair ==
    (Returned /\ HasRules) =>
        LET spacing == OfType(result.warnings, "hole_spacing")
            n == IF HasMounting THEN Cardinality(OffendingPairs) ELSE 0
        IN  /\ Len(spacing) = n
            /\ HasMounting =>
                 \A pr \in OffendingPairs :
                    \E k \in 1..Len(spacing) :
                        /\ spacing[k].pos1 = InputPositions[pr[1]]
                        /\ spacing[k].pos2 = InputPositions[pr[2]]
            /\ NearTenths(result.confidence,
                          ClampTenths(Len(result.issues),
                                      Len(result.warnings) - Len(spacing) + n))

\* three holes, two close pairs and one pair exactly at the minimum spacing
C6_Witness ==
    /\ Returned /\ HasRules /\ HasMounting
    /\ Len(InputPositions) = 3
    /\ Cardinality(OffendingPairs) = 2
    /\ Len(OfType(result.warnings, "hole_spacing")) = 2

\* ------------------------------------------------------------------------
\* Properties of estimate_cost and compare_processes
\* ------------------------------------------------------------------------
EstimateReturned == pc = "returned" /\ op = "estimate_cost"
CompareReturned == pc = "returned" /\ op = "compare_processes"

\* the position of a process in the list compare_processes walks
ProcessIndex(process) == CHOOSE i \in 1..Len(processes) : processes[i] = process

\* the index pairs of the returned list that report the same unit_cost
TiedPairs ==
    {pr \in (1..Len(comparisons)) \X (1..Len(comparisons)) :
        pr[1] < pr[2] /\ comparisons[pr[1]].unit_cost = comparisons[pr[2]].unit_cost}

\* C7: when compare_processes returns, the list holds the estimate of each
\* of cnc_milling, 3d_printing and injection_molding for the same bounding
\* box and quantity, in non-decreasing order of unit_cost, and estimates of
\* equal unit_cost keep the order of the process list.
C7_SortedAndStable ==
    CompareReturned =>
        /\ Len(comparisons) = Len(processes)
        /\ \A k \in 1..Len(processes) :
              \E i \in 1..Len(comparisons) :
                 comparisons[i] = estimate_cost(TempParams(params, processes[k]),
                                                bounding_box, quantity)
        /\ \A i \in 1..(Len(comparisons) - 1) :
              comparisons[i].unit_cost <= comparisons[i + 1].unit_cost
        /\ \A pr \in TiedPairs :
              ProcessIndex(comparisons[pr[1]].process)
                  < ProcessIndex(comparisons[pr[2]].process)

\* a returned list with two estimates of the same unit_cost, and one that is
\* not in the order of the process list
C7_Witness ==
    /\ CompareReturned
    /\ TiedPairs # {}
    /\ comparisons[1].process # processes[1]

\* the factor of the tier a quantity falls in
TierFactor(q) ==
    IF q >= 1000 THEN Lit(70, 100)
    ELSE IF 500 <= q /\ q < 1000 THEN Lit(80, 100)
    ELSE IF 100 <= q /\ q < 500 THEN Lit(90, 100)
    ELSE FInt(1)

\* direct + overhead cost of the CNC formula at the quantity of the call
Undiscounted ==
    CncParts(MassKg(params, bounding_box), VolumeCm3(bounding_box),
             MaterialPrice(params), ProcessParams(params), quantity).unit_cost

CncReturned == EstimateReturned /\ costs.process = "cnc_milling"

\* C8: the unit cost of a CNC estimate is the undiscounted unit cost (direct
\* + overhead at the same quantity) times the one factor of the quantity's
\* tier, 0.70 from 1000, 0.80 from 500, 0.90 from 100 and 1.0 below, rounded
\* to the cent.
C8_TierFactor ==
    CncReturned =>
        costs.unit_cost = RoundDec(FMul(Undiscounted, TierFactor(quantity)), 2)

\* quantity = 1000: the unit cost is undiscounted x 0.70, below undiscounted x 0.80
C8_Witness ==
    /\ CncReturned /\ quantity = 1000
    /\ costs.unit_cost = RoundDec(FMul(Undiscounted, Lit(70, 100)), 2)
    /\ costs.unit_cost < RoundDec(FMul(Undiscounted, Lit(80, 100)), 2)

\* C9 as stated: total_cost is the returned unit_cost times the returned
\* quantity.
C9_TotalIsUnitTimesQuantity ==
    EstimateReturned => costs.total_cost = costs.unit_cost * costs.quantity

\* |a - b|
Dist(a, b) == IF a >= b THEN a - b ELSE b - a

\* C9: total_cost is the unrounded unit cost times the quantity, rounded to
\* the cent: it is within (quantity + 1) / 2 cents of the returned unit_cost
\* times the returned quantity, which is the quantity of the call, and equal
\* to the returned unit_cost when the quantity is 1.
C9_TotalWithinRounding ==
    EstimateReturned =>
        /\ costs.quantity = quantity
        /\ 2 * Dist(costs.total_cost, costs.unit_cost * costs.quantity) <= quantity + 1
        /\ quantity = 1 => costs.total_cost = costs.unit_cost

\* an estimate whose total_cost is not unit_cost x quantity
C9_Witness ==
    /\ EstimateReturned /\ quantity = 100
    /\ costs.total_cost # costs.unit_cost * costs.quantity

\* C10: estimate_cost and compare_processes return for every process and
\* every quantity, quantity = 0 and zero volume included: no call raises.
C10_NeverRaises == pc # "raised"

\* ------------------------------------------------------------------------
\* Properties of validate: defaults and findings
\* ------------------------------------------------------------------------
\* d with the entry k -> v added when d has no k
WithDefault(d, k, v) == IF k \in DOMAIN d THEN d ELSE (k :> v) @@ d

\* the primary_geometry with every field validate reads written out
FilledGeometry(g) ==
    WithDefault(WithDefault(WithDefault(g, "wall_thickness", 20), "base_length", 1000),
                "base_width", 800)

\* the mounting_pattern with both of its fields written out
FilledMounting(mp) == WithDefault(WithDefault(mp, "hole_diameter", 45), "positions", <<>>)

\* the parameter record with every documented default written out; an
\* absent mounting_pattern stays absent
Filled(p) ==
    LET q == WithDefault(WithDefault(p, "material", "aluminum_6061_t6"),
                         "manufacturing_process", "cnc_milling")
        g == ("primary_geometry" :> FilledGeometry(Get(p, "primary_geometry", EmptyDict)))
    IN  IF "mounting_pattern" \in DOMAIN p
        THEN ("mounting_pattern" :> FilledMounting(p["mounting_pattern"])) @@ g @@ q
        ELSE g @@ q

InputHoleDiameter == Get(Get(params, "mounting_pattern", EmptyDict), "hole_diameter", 45)

\* C11: validate returns for every parameter record, whichever of material,
\* manufacturing_process, primary_geometry and its fields, mounting_pattern
\* and its fields are absent: the result is a ValidationResult, the one of
\* the record with the documented defaults written out, and a rule set
\* without max_wall_thickness or min_hole_diameter is read with 10.0mm and
\* 3.0mm.
C11_DefaultsNeverRaise ==
    (op = "validate") =>
        /\ pc = "returned"
        /\ {"valid", "issues", "warnings", "suggestions", "confidence"} \subseteq DOMAIN result
        /\ result = validate(Filled(params))
        /\ (HasRules /\ "max_wall_thickness" \notin DOMAIN RuleSet
               /\ InputWall >= RuleSet.min_wall_thickness) =>
             (Len(OfType(result.warnings, "wall_thickness")) = 1 <=> InputWall > 100)
        /\ (HasRules /\ "min_hole_diameter" \notin DOMAIN RuleSet /\ HasMounting) =>
             (Len(OfType(result.issues, "hole_diameter")) = 1 <=> InputHoleDiameter < 30)

\* every optional field absent but the mounting pattern, which is empty
C11_Witness ==
    /\ Returned
    /\ DOMAIN params = {"mounting_pattern"}
    /\ params["mounting_pattern"] = EmptyDict
    /\ result.valid = TRUE /\ result.dfm_score = 100

\* ------------------------------------------------------------------------
\* Properties of the component library
\* ------------------------------------------------------------------------
SearchReturned == pc = "returned" /\ op = "search"

\* two characters that are the same letter in either case, or the same character
SameLetter(a, b) ==
    a = b \/ \E i \in 1..Len(UpperLetters) : {a, b} = {UpperLetters[i], LowerLetters[i]}

EqualIgnoringCase(s, t) ==
    Len(s) = Len(t) /\ \A i \in 1..Len(s) : SameLetter(s[i], t[i])

ContainsIgnoringCase(t, s) ==
    \E i \in 0..(Len(t) - Len(s)) : EqualIgnoringCase(SubSeq(t, i + 1, i + Len(s)), s)

\* the categories a search is scoped to: all of them without a category,
\* the given one when it is known, none when it is unknown
Scope(cat) ==
    IF cat = None THEN DOMAIN components ELSE {cat[1]} \cap DOMAIN components

\* the components of the scope whose name contains the query, annotated
Matches(q, cat) ==
    {Annotated(c, components[c][i]) :
        <<c, i>> \in {<<c, i>> \in Scope(cat) \X (1..8) :
                         /\ i <= Len(components[c])
                         /\ ContainsIgnoringCase(components[c][i].name, q)}}

NEMA17 == <<"N", "E", "M", "A", "1", "7">>

\* C12: search returns exactly the components whose name contains the query
\* ignoring case, each once and annotated with its category, from the given
\* category when one is supplied (none for an unknown category) and from all
\* categories otherwise; search("NEMA17") returns the one component NEMA17
\* of nema_motors.
C12_SearchContract ==
    SearchReturned =>
        /\ {results[i] : i \in 1..Len(results)} = Matches(query, category)
        /\ Len(results) = Cardinality(Matches(query, category))
        /\ (query = NEMA17 /\ category = None) =>
               results = <<Annotated("nema_motors", components.nema_motors[3])>>

\* the same contract for every category except the empty string
C12_NonEmptyCategory == (category # Some("")) => C12_SearchContract

\* the components of a category, none for an unknown category
ComponentsOf(cat) ==
    IF cat \in DOMAIN components
    THEN {components[cat][i] : i \in 1..Len(components[cat])}
    ELSE {}

\* the components of the category whose name is the name, ignoring case
Named(cat, n) == {c \in ComponentsOf(cat) : EqualIgnoringCase(c.name, n)}

\* C13: get_component returns the component of the category whose name
\* equals the name ignoring case, and None when the category is unknown or no
\* name matches; get_category returns the empty list for an unknown
\* category; neither raises.
C13_LookupNeverRaises ==
    /\ (op = "get_component") =>
           /\ pc = "returned"
           /\ IF Named(category[1], name) = {}
              THEN component = None
              ELSE component \in {Some(c) : c \in Named(category[1], name)}
    /\ (op = "get_category") =>
           /\ pc = "returned"
           /\ IF category[1] \in DOMAIN components
              THEN results = components[category[1]]
              ELSE results = <<>>

C13_Witness ==
    /\ pc = "returned"
    /\ op = "get_component"
    /\ category = Some("nema_motors")
    /\ name = <<"n", "e", "m", "a", "1", "7">>
    /\ component = Some(components.nema_motors[3])

C13_WitnessUnknown ==
    /\ pc = "returned"
    /\ op = "get_category"
    /\ category = Some("gears")
    /\ results = <<>>

\* ------------------------------------------------------------------------
\* Properties of estimate_cost: dispatch, scenario, effects
\* ------------------------------------------------------------------------
CostProcess == Get(params, "manufacturing_process", "cnc_milling")

\* estimate_cost returned for a process that has no formula of its own
FallbackReturned ==
    EstimateReturned /\ CostProcess \notin {"cnc_milling", "3d_printing", "injection_molding"}

\* C14: estimate_cost with a manufacturing_process other than cnc_milling,
\* 3d_printing and injection_molding evaluates the CNC formula: the result
\* has process cnc_milling, the four CNC breakdown keys, and a unit cost that
\* is the undiscounted CNC unit cost times the factor of the quantity's tier.
C14_UnknownProcessIsCnc ==
    FallbackReturned =>
        /\ costs.process = "cnc_milling"
        /\ DOMAIN costs.breakdown = {"material", "labor", "tooling_amortized", "overhead"}
        /\ costs.unit_cost = RoundDec(FMul(Undiscounted, TierFactor(quantity)), 2)
        /\ costs = _estimate_cnc_cost(MassKg(params, bounding_box), VolumeCm3(bounding_box),
                                      MaterialPrice(params), ProcessParams(params), quantity)

\* sheet_metal at quantity 500: a CNC estimate at the 0.80 tier
C14_Witness ==
    /\ FallbackReturned /\ CostProcess = "sheet_metal" /\ quantity = 500
    /\ costs.process = "cnc_milling"
    /\ costs.unit_cost = RoundDec(FMul(Undiscounted, Lit(80, 100)), 2)

\* the call of the scenario: aluminum_6061_t6, cnc_milling, 100000 mm3, 100 units
Scenario ==
    /\ EstimateReturned
    /\ Get(params, "material", "aluminum_6061_t6") = "aluminum_6061_t6"
    /\ CostProcess = "cnc_milling"
    /\ bounding_box.volume = 100000
    /\ quantity = 100

\* the costs of the CNC formula before they are rounded for the result
ScenarioParts ==
    CncParts(MassKg(params, bounding_box), VolumeCm3(bounding_box),
             MaterialPrice(params), ProcessParams(params), quantity)

\* the values of the scenario other than total_cost: mass 0.270 kg, material
\* 1.296, labor 17.33, tooling 0.50, overhead 4.78, undiscounted 23.91,
\* unit_cost 21.52
ScenarioValues ==
    /\ costs.mass_kg = 270
    /\ RoundDec(ScenarioParts.material, 3) = 1296
    /\ costs.breakdown.labor = 1733
    /\ costs.breakdown.tooling_amortized = 50
    /\ costs.breakdown.overhead = 478
    /\ RoundDec(ScenarioParts.unit_cost, 2) = 2391
    /\ costs.unit_cost = 2152

\* C15 as stated: the scenario yields mass_kg 0.270, material cost 1.296,
\* labor 17.33, tooling 0.50, overhead 4.78, pre-discount unit cost 23.91,
\* unit_cost 21.52 and total_cost 2151.6.
C15_ScenarioAsStated == Scenario => (ScenarioValues /\ costs.total_cost = 215160)

\* C15: the scenario yields mass_kg 0.270, material cost 1.296 (1.30 in the
\* breakdown), labor 17.33, tooling 0.50, overhead 4.78, pre-discount unit
\* cost 23.91, unit_cost 21.52 and total_cost 2152.05, the unrounded unit
\* cost 21.5205 times 100.
C15_Scenario ==
    Scenario =>
        /\ ScenarioValues
        /\ costs.breakdown.material = 130
        /\ costs.total_cost = 215205

C15_Witness == Scenario /\ costs.unit_cost = 2152 /\ costs.total_cost = 215205

\* ------------------------------------------------------------------------
\* Properties of the geometry dispatch
\* ------------------------------------------------------------------------
DispatchReturned == pc = "returned" /\ op = "generate_custom"

HasType == "type" \in DOMAIN params

\* the type is the word, in any mixture of upper and lower case
TypeIs(word) == HasType /\ EqualIgnoringCase(params.type, word)

\* C16: the dispatch selects the generator by the type compared ignoring
\* case: bracket, cylinder and gear their own generators, box and housing
\* the box generator, a missing type or any other string the box generator;
\* it returns for every type.
C16_DispatchIgnoresCase ==
    (op = "generate_custom") =>
        /\ pc = "returned"
        /\ generator =
               IF TypeIs(Bracket) THEN "generate_bracket"
               ELSE IF TypeIs(Cylinder) THEN "generate_cylinder"
               ELSE IF TypeIs(Gear) THEN "generate_gear"
               ELSE "generate_box"
        /\ (TypeIs(Box) \/ TypeIs(Housing) \/ ~HasType) => generator = "generate_box"

\* the type "BRACKEt" selects the bracket generator
C16_Witness ==
    /\ DispatchReturned
    /\ HasType /\ params.type = <<"B", "R", "A", "C", "K", "E", "t">>
    /\ generator = "generate_bracket"

\* a type that names no generator selects the box generator
C16_WitnessOther ==
    /\ DispatchReturned
    /\ HasType /\ params.type = <<"p", "l", "a", "t", "e">>
    /\ generator = "generate_box"

\* C17: compare_processes and estimate_cost leave the caller's params (its
\* manufacturing_process included), the bounding box and the material-price
\* and process-rate tables as they were before the call.
C17_NoSideEffects ==
    [][(op' \in {"compare_processes", "estimate_cost"}) =>
           /\ params' = params
           /\ bounding_box' = bounding_box
           /\ material_prices' = material_prices
           /\ process_rates' = process_rates]_vars

\* compare_processes returned three estimates, the last one evaluated for
\* injection_molding, and the caller's record still names sheet_metal
C17_Witness ==
    /\ CompareReturned
    /\ Len(comparisons) = Len(processes)
    /\ "manufacturing_process" \in DOMAIN params
    /\ params.manufacturing_process = "sheet_metal"
    /\ TablesLoaded

\* compare_processes raised in its first iteration and the caller's record
\* still has no manufacturing_process
C17_WitnessRaised ==
    /\ pc = "raised" /\ op = "compare_processes"
    /\ "manufacturing_process" \notin DOMAIN params

\* ------------------------------------------------------------------------
\* Properties of validate: wall and edge findings
\* ------------------------------------------------------------------------
\* the numbers of wall_thickness findings among issues, warnings, suggestions
WallFindings ==
    << Len(OfType(result.issues, "wall_thickness")),
       Len(OfType(result.warnings, "wall_thickness")),
       Len(OfType(result.suggestions, "wall_thickness")) >>

MinWall == Get(RuleSet, "min_wall_thickness", 10)
MaxWall == Get(RuleSet, "max_wall_thickness", 100)
RecommendedWall == Get(RuleSet, "recommended_wall_thickness", <<20, 30>>)

\* C18: validate reports at most one wall_thickness finding over issues,
\* warnings and suggestions: only the critical issue below the minimum,
\* otherwise only the warning above the maximum, otherwise only the
\* suggestion outside the recommended band, and none inside it.
C18_OneWallFinding ==
    (Returned /\ HasRules) =>
        /\ WallFindings[1] + WallFindings[2] + WallFindings[3] <= 1
        /\ WallFindings =
               IF InputWall < MinWall THEN <<1, 0, 0>>
               ELSE IF InputWall > MaxWall THEN <<0, 1, 0>>
               ELSE IF InputWall < RecommendedWall[1] \/ InputWall > RecommendedWall[2]
                    THEN <<0, 0, 1>>
               ELSE <<0, 0, 0>>
        /\ WallFindings[1] = 1 => OfType(result.issues, "wall_thickness")[1].severity = "critical"

\* 9.0mm in aluminum: above the maximum 8.0 and outside the band 2.0-3.0,
\* reported by the warning alone
C18_Witness ==
    /\ Returned /\ HasRules
    /\ ResolvedMaterial = "aluminum_6061_t6" /\ InputWall = 90
    /\ WallFindings = <<0, 1, 0>>

\* 1.0mm in stainless steel: the suggestion alone
C18_WitnessSuggestion ==
    /\ Returned /\ HasRules
    /\ ResolvedMaterial = "stainless_304" /\ InputWall = 10
    /\ WallFindings = <<0, 0, 1>>

\* the clearance c: the rule's edge-distance multiplier times the hole diameter
Clearance == Get(RuleSet, "min_edge_distance", 3) * InputHoleDiameter

InputBaseLength == Get(Get(params, "primary_geometry", EmptyDict), "base_length", 1000)
InputBaseWidth == Get(Get(params, "primary_geometry", EmptyDict), "base_width", 800)

XTooClose(pos) == pos[1] < Clearance \/ pos[1] > InputBaseLength - Clearance
YTooClose(pos) == pos[2] < Clearance \/ pos[2] > InputBaseWidth - Clearance

\* the number of edge_distance warnings a hole contributes: 0, 1 or 2
EdgeCount(pos) == (IF XTooClose(pos) THEN 1 ELSE 0) + (IF YTooClose(pos) THEN 1 ELSE 0)

RECURSIVE EdgeTotal(_, _)
\* the sum of the contributions of the holes from index i on
EdgeTotal(positions, i) ==
    IF i > Len(positions) THEN 0
    ELSE EdgeCount(positions[i]) + EdgeTotal(positions, i + 1)

EdgeWarnings == OfType(result.warnings, "edge_distance")

\* C19: with clearance c = edge-distance multiplier x hole diameter, each
\* hole (x, y) of the mounting pattern gets one edge_distance warning iff
\* x < c or x > base_length - c and one more iff y < c or y > base_width - c;
\* the warnings are those of the holes in order, their number the sum of the
\* 0, 1 or 2 of each hole.
C19_EdgeWarningsPerHole ==
    (Returned /\ HasRules) =>
        IF HasMounting
        THEN /\ Len(EdgeWarnings) = EdgeTotal(InputPositions, 1)
             /\ \A i \in 1..Len(InputPositions) :
                    LET first == EdgeTotal(InputPositions, 1) - EdgeTotal(InputPositions, i)
                    IN  \A k \in 1..EdgeCount(InputPositions[i]) :
                            EdgeWarnings[first + k] = EdgeWarning(InputPositions[i])
        ELSE EdgeWarnings = <<>>

\* hole (23, 24) with c = 24 on the default 100 x 80 base: one warning, for
\* x alone
C19_Witness ==
    /\ Returned /\ HasRules /\ HasMounting
    /\ InputPositions = <<(<<230, 240>>)>>
    /\ Clearance = 240
    /\ InputBaseLength = 1000 /\ InputBaseWidth = 800
    /\ Len(EdgeWarnings) = 1

\* hole (23, 24) on the 30 x 30 base with c = 7.5: two warnings, and none
\* for hole (20, 20)
C19_WitnessTwo ==
    /\ Returned /\ HasRules /\ HasMounting
    /\ InputPositions = <<(<<200, 200>>), <<230, 240>>>>
    /\ Clearance = 75 /\ InputBaseLength = 300
    /\ Len(EdgeWarnings) = 2

\* ------------------------------------------------------------------------
\* Properties of estimate_cost: 3D printing
\* ------------------------------------------------------------------------
PrintReturned == EstimateReturned /\ CostProcess = "3d_printing"

\* an estimate without its total_cost and its quantity
WithoutTotal(e) == [k \in DOMAIN e \ {"total_cost", "quantity"} |-> e[k]]

\* C20: for 3D printing, with the material and the bounding box of the call,
\* estimate_cost returns for every quantity the unit_cost, breakdown, mass_kg
\* and other fields of this call's estimate; only total_cost and quantity
\* differ.
C20_PrintingIgnoresQuantity ==
    PrintReturned =>
        \A q \in QuantityInputs :
            \E other \in {estimate_cost(params, bounding_box, q)} :
                /\ ~IsRaise(other)
                /\ WithoutTotal(other) = WithoutTotal(costs)
                /\ other.unit_cost = costs.unit_cost
                /\ other.breakdown = costs.breakdown
                /\ other.mass_kg = costs.mass_kg
                /\ other.quantity = q

\* 1000 units of a 100 cm3 part: the unit cost of a single unit, and another total
C20_Witness ==
    /\ PrintReturned /\ quantity = 1000 /\ bounding_box.volume = 100000
    /\ costs.unit_cost > 0
    /\ costs.unit_cost = estimate_cost(params, bounding_box, 1).unit_cost
    /\ costs.total_cost # estimate_cost(params, bounding_box, 1).total_cost

\* quantity 0: the estimate is returned, with total_cost 0
C20_WitnessZero ==
    /\ PrintReturned /\ quantity = 0 /\ bounding_box.volume = 100000
    /\ costs.unit_cost > 0 /\ costs.total_cost = 0

\* ------------------------------------------------------------------------
\* Properties of estimate_cost: the processes without a formula
\* ------------------------------------------------------------------------
\* the estimate of the same call made for cnc_milling
CncEstimate == estimate_cost(TempParams(params, "cnc_milling"), bounding_box, quantity)

\* C21: for every manufacturing_process other than 3d_printing and
\* injection_molding, sheet_metal included, estimate_cost returns the record
\* it returns for cnc_milling with the same material, bounding box and
\* quantity.
C21_FallbackEqualsCnc ==
    (EstimateReturned /\ CostProcess \notin {"3d_printing", "injection_molding"}) =>
        costs = CncEstimate

\* the same equality for every process but sheet_metal
C21_ExceptSheetMetal == (CostProcess # "sheet_metal") => C21_FallbackEqualsCnc

\* ------------------------------------------------------------------------
\* Properties of estimate_cost: total cost and quantity
\* ------------------------------------------------------------------------
\* estimate_cost returned for cnc_milling and a quantity of at least 1
MillingReturned == EstimateReturned /\ CostProcess = "cnc_milling" /\ quantity >= 1

\* total_cost of the same call at the quantity q
TotalAt(q) == estimate_cost(params, bounding_box, q).total_cost

\* the discount tier of a quantity: 0 below 100, 1 from 100, 2 from 500, 3 from 1000
Tier(q) == IF q >= 1000 THEN 3 ELSE IF q >= 500 THEN 2 ELSE IF q >= 100 THEN 1 ELSE 0

\* C22 as stated: for CNC milling with the material and bounding box fixed,
\* total_cost(q1) <= total_cost(q2) for all quantities 1 <= q1 < q2, across
\* the thresholds 100, 500 and 1000 too.
C22_TotalNeverDecreases ==
    MillingReturned =>
        \A q2 \in QuantityInputs : q2 > quantity => costs.total_cost <= TotalAt(q2)

\* C22: for CNC milling with the material and bounding box fixed,
\* total_cost(q1) <= total_cost(q2) for quantities 1 <= q1 < q2 of the same
\* discount tier; the last quantity below a threshold costs more in total
\* than the threshold quantity: total_cost(99) > total_cost(100),
\* total_cost(499) > total_cost(500), total_cost(999) > total_cost(1000).
C22_TotalGrowsWithinTier ==
    MillingReturned =>
        /\ \A q2 \in QuantityInputs :
               (q2 > quantity /\ Tier(q2) = Tier(quantity)) => costs.total_cost <= TotalAt(q2)
        /\ (quantity \in {99, 499, 999}) => costs.total_cost > TotalAt(quantity + 1)

\* 99 units of the 100 cm3 aluminum part cost more than 100 units
C22_Witness ==
    /\ MillingReturned /\ quantity = 99 /\ bounding_box.volume = 100000
    /\ Get(params, "material", "aluminum_6061_t6") = "aluminum_6061_t6"
    /\ costs.total_cost = 236788
    /\ TotalAt(100) = 215205

\* ------------------------------------------------------------------------
\* Properties of the design endpoints
\* ------------------------------------------------------------------------
\* no request is between two of its awaits
Settled == \A r \in Requests : requests[r].at \in {"idle", "done"}

\* the request r of the endpoint for the design id has been answered
Completed(r, endpoint, id) ==
    /\ requests[r].endpoint = endpoint
    /\ requests[r].design_id = id
    /\ requests[r].at = "done"

\* C23: after any sequence of generate_design, edit_design and
\* validate_design requests, every stored design has status validated
\* exactly when its stored dfm_validation.valid is true, and draft otherwise.
C23_StatusFollowsValidation ==
    Settled =>
        \A id \in DOMAIN designs :
            designs[id].status =
                IF designs[id].dfm_validation.valid THEN "validated" ELSE "draft"

\* the same for the designs no edit_design request was made for
C23_WithoutEdit ==
    Settled =>
        \A id \in DOMAIN designs :
            (\A r \in Requests : ~Completed(r, "edit_design", id)) =>
                designs[id].status =
                    IF designs[id].dfm_validation.valid THEN "validated" ELSE "draft"

\* C24: once a validate_design and an edit_design request for the same
\* design have both completed, however they interleaved, the stored
\* dfm_validation of the design is the validation of its stored parameters.
C24_ValidationOfStoredParameters ==
    \A id \in DOMAIN designs :
        (\E v, e \in Requests : /\ Completed(v, "validate_design", id)
                                /\ Completed(e, "edit_design", id)
                                /\ requests[v].found /\ requests[e].found) =>
            designs[id].dfm_validation = validate(designs[id].parameters)

\* the same when no validate_design request has been made
C24_WithoutValidate ==
    (Settled /\ \A r \in Requests : requests[r].endpoint # "validate_design") =>
        \A id \in DOMAIN designs :
            designs[id].dfm_validation = validate(designs[id].parameters)

DesignEndpoints ==
    {"get_design", "edit_design", "validate_design", "estimate_cost", "export_design",
     "delete_design"}

\* the request r named a design that was not in the store
Missed(r) ==
    /\ requests[r].endpoint \in DesignEndpoints
    /\ requests[r].at = "done"
    /\ ~requests[r].found

\* C25: a request of a design endpoint that names a design id not in the
\* store is answered with status 404.
C25_MissingDesignIs404 ==
    \A r \in Requests : Missed(r) => requests[r].status_code = 404

\* get_design answers 404, the five other endpoints 500
C25_AnsweredByEndpoint ==
    \A r \in Requests :
        Missed(r) =>
            requests[r].status_code =
                IF requests[r].endpoint = "get_design" THEN 404 ELSE 500

\* a request that names a design not in the store leaves the store as it is
C25_StoreUnchanged ==
    [][\A r \in Requests :
           (requests[r].at = "idle" /\ requests'[r].at = "done" /\ ~requests'[r].found) =>
               designs' = designs]_vars
====
